---------------------------- MODULE Spec2Model ----------------------------
(***************************************************************************)
(* A model of the arena variant of tokio-postgres' extended-query engine:  *)
(* the request multiplexer (InnerClient::send, Responses), the statement   *)
(* manager (prepare_in, Statement and its Drop), the query executor        *)
(* (query_in, query_typed_in, execute_in, RowStream) and the callers that  *)
(* drive them, against a connection task that delivers backend messages.   *)
(***************************************************************************)
EXTENDS Integers, Sequences, FiniteSets, TLC

(***************************************************************************)
(* Bounds of the model.                                                    *)
(***************************************************************************)
\* operations a caller starts in one run
MaxOps == 2
\* backend messages the connection delivers for one request
MaxMsgs == 4
\* Statement handles of one statement a caller holds at a time
MaxHandles == 2
\* clients the process connects one after the other
MaxClients == 2

\* the logical callers sharing the client
Callers == {"a", "b"}
\* the parameter counts a caller supplies and a ParameterDescription declares
ParamCounts == {0, 1}
\* the sizes of one BackendMessages batch
BatchSizes == {1, 2}

(***************************************************************************)
(* Statement names: "s" followed by the decimal digits of the counter.     *)
(***************************************************************************)
DigitChars == <<"0", "1", "2", "3", "4", "5", "6", "7", "8", "9">>

RECURSIVE Digits(_)
Digits(n) == IF n < 10 THEN <<DigitChars[n + 1]>>
             ELSE Digits(n \div 10) \o <<DigitChars[(n % 10) + 1]>>

\* std::write!(name, "s{}", id)
StmtName(id) == <<"s">> \o Digits(id)

\* the empty name of an unnamed statement
Unnamed == <<>>

(***************************************************************************)
(* Frontend messages, as the encoders append them to the buffer.           *)
(***************************************************************************)
FParse(name)    == [t |-> "Parse", name |-> name, np |-> 0]
FDescribe(name) == [t |-> "Describe", name |-> name, np |-> 0]
FBind(name, np) == [t |-> "Bind", name |-> name, np |-> np]
FExecute        == [t |-> "Execute", name |-> Unnamed, np |-> 0]
FSync           == [t |-> "Sync", name |-> Unnamed, np |-> 0]
FClose(name)    == [t |-> "Close", name |-> name, np |-> 0]

(***************************************************************************)
(* Backend messages.  k is the message kind, a its payload (the number of  *)
(* parameters of a ParameterDescription, the names of the fields of a      *)
(* RowDescription, the tag of a CommandComplete) and n the position of the *)
(* message in the replies to its request.  "Malformed" stands for a frame  *)
(* that fails to parse, in BackendMessages::next or when its body is read  *)
(* by the one who takes it: both end the pull with the Parse error.  A     *)
(* BackendMessages batch is a buffer of undecoded frames: a channel        *)
(* carries the positions of the frames, and what a frame decodes to is an  *)
(* input of the cur.next() that decodes it (nothing reads a frame before   *)
(* that call).  The payload of a DataRow is its fields: a value, for which  *)
(* DataRowBody::ranges gives Some range, or NULL, for which it gives None. *)
(***************************************************************************)
TagUpdate3 == <<"U", "P", "D", "A", "T", "E", " ", "3">>
TagSelect  == <<"S", "E", "L", "E", "C", "T">>
\* the tag of a SELECT that retrieved one row
TagSelect1 == <<"S", "E", "L", "E", "C", "T", " ", "1">>
StreamTags == {TagUpdate3, TagSelect, TagSelect1}

\* a table OID the backend assigns to a user table
TableOid == 16384

\* the fields of a RowDescription, in the order the backend sends them:
\* the first has no table and the ordinal 3, the second a table and no
\* ordinal
Fields == <<[name |-> <<"I", "d">>, table_oid |-> 0, column_id |-> 3,
             type_oid |-> 23],
           [name |-> <<"i", "d">>, table_oid |-> TableOid, column_id |-> 0,
             type_oid |-> 16]>>

\* the fields of a DataRow: one for each field of the RowDescription
DataRowFields == <<"Some", "None">>

Kinds == {"ParseComplete", "ParameterDescription", "RowDescription", "NoData",
          "BindComplete", "DataRow", "CommandComplete", "EmptyQueryResponse",
          "PortalSuspended", "ReadyForQuery", "ErrorResponse", "CloseComplete",
          "Malformed"}

Payloads(k) == CASE k = "ParameterDescription" -> ParamCounts
                 [] k = "RowDescription" -> {Fields}
                 [] k = "DataRow" -> {DataRowFields}
                 [] k = "CommandComplete" -> StreamTags
                 [] OTHER -> {0}

Letters == UNION {[k : {k}, a : Payloads(k)] : k \in Kinds}

Msg(l, n) == [k |-> l.k, a |-> l.a, n |-> n]

(***************************************************************************)
(* extract_row_affected: the trailing space-delimited token of the tag,    *)
(* parsed as an unsigned integer, and 0 when it does not parse.            *)
(***************************************************************************)
DigitValue(ch) == CHOOSE d \in 0..9 : DigitChars[d + 1] = ch
IsDigit(ch) == \E d \in 0..9 : DigitChars[d + 1] = ch

\* tag.split(' ').next(): what precedes the first space
RECURSIVE FirstToken(_)
FirstToken(tag) ==
    IF tag = <<>> \/ Head(tag) = " " THEN <<>>
    ELSE <<Head(tag)>> \o FirstToken(Tail(tag))

\* tag.rsplit(' ').next(): what follows the last space
RECURSIVE LastToken(_)
LastToken(tag) ==
    IF \A i \in 1..Len(tag) : tag[i] # " " THEN tag
    ELSE LastToken(Tail(tag))

\* str::parse::<u64>: -1 stands for the parse error
RECURSIVE DigitsValue(_, _)
DigitsValue(tok, acc) ==
    IF tok = <<>> THEN acc
    ELSE IF ~IsDigit(Head(tok)) THEN -1
    ELSE DigitsValue(Tail(tok), acc * 10 + DigitValue(Head(tok)))

\* u64::MAX in decimal
U64MaxDigits == <<"1", "8", "4", "4", "6", "7", "4", "4", "0", "7",
                  "3", "7", "0", "9", "5", "5", "1", "6", "1", "5">>

RECURSIVE StripZeros(_)
StripZeros(t) ==
    IF t # <<>> /\ Head(t) = "0" THEN StripZeros(Tail(t)) ELSE t

\* a > b for two decimal numbers with the same number of digits
RECURSIVE DigitsGreater(_, _)
DigitsGreater(a, b) ==
    IF a = <<>> THEN FALSE
    ELSE IF DigitValue(Head(a)) # DigitValue(Head(b))
         THEN DigitValue(Head(a)) > DigitValue(Head(b))
    ELSE DigitsGreater(Tail(a), Tail(b))

\* the checked multiplication or addition of the parse overflows: the
\* digits t stand for a number above u64::MAX
ExceedsU64(t) ==
    LET z == StripZeros(t)
    IN  \/ Len(z) > Len(U64MaxDigits)
        \/ Len(z) = Len(U64MaxDigits) /\ DigitsGreater(z, U64MaxDigits)

ParseU64(tok) ==
    LET t == IF tok # <<>> /\ Head(tok) = "+" THEN Tail(tok) ELSE tok
    IN  IF t = <<>> THEN -1
        ELSE IF \E i \in 1..Len(t) : ~IsDigit(t[i]) THEN -1
        ELSE IF ExceedsU64(t) THEN -1
        ELSE DigitsValue(t, 0)

extract_row_affected(tag) ==
    LET v == ParseU64(LastToken(tag)) IN IF v < 0 THEN 0 ELSE v

\* the command tags extract_row_affected is called on: every string of at
\* most MaxTagLen of the characters TagChars, and the tags below
MaxTagLen == 3
TagChars == {"S", " ", "5", "0", "+"}
TagInsert05 == <<"I", "N", "S", "E", "R", "T", " ", "0", " ", "5">>
TagTooLarge == <<"S", " ">> \o [U64MaxDigits EXCEPT ![20] = "6"]
TagManyDigits == <<"S", " ", "5">> \o U64MaxDigits
AskTags ==
    UNION {[1..n -> TagChars] : n \in 0..MaxTagLen}
        \cup {TagUpdate3, TagSelect, TagSelect1, TagInsert05, TagTooLarge,
              TagManyDigits}

\* the Oids looked up and the Types stored for them; 0 stands for None
Oids == {16, 23}
Types == {"bool", "int4"}

\* CachedTypeInfo::default(): no typeinfo statement, no type
NoCache == [typeinfo |-> 0, typeinfo_composite |-> 0, typeinfo_enum |-> 0,
            types |-> [o \in Oids |-> "None"]]

\* no call yet
\* no replies fixed: the backend may answer a request with anything
NoScript == <<>>

NoCalc == [f |-> "", in |-> <<>>, flag |-> TRUE, ok |-> TRUE, out |-> 0]

(***************************************************************************)
(* The state.                                                              *)
(***************************************************************************)
VARIABLES
    nextId,        \* prepare::NEXT_ID
    client,        \* the InnerClient of the process: 1 for the first, 2 for the next
    clientAlive,   \* a Client handle (a strong Arc<InnerClient>) exists
    senderClosed,  \* InnerClient.sender is closed (is_closed())
    buffer,        \* InnerClient.buffer, the shared write buffer
    sent,          \* the requests enqueued on InnerClient.sender, in order
    chan,          \* chan[r]: the response channel of request r
    stmts,         \* the StatementInner objects ever created
    pc,            \* pc[c]: where caller c is in its operation
    loc,           \* loc[c]: the locals of caller c's operation
    resp,          \* resp[c]: the Responses of caller c's operation
    stream,        \* stream[c]: the RowStream caller c holds
    rows,          \* rows[c]: the Rows caller c holds
    hnd,           \* hnd[c][s]: the Statement handles of s caller c holds
    ret,           \* ret[c]: the result of caller c's last operation
    nops,          \* nops[c]: the operations caller c has started
    got,           \* the last Row::get or Row::try_get and its result
    cached_typeinfo, \* InnerClient.cached_typeinfo of the client
    calc,          \* the last call of a function on a value, and its result
    script         \* the replies the backend gives to a Bind request, when fixed

vars == <<nextId, client, clientAlive, senderClosed, buffer, sent, chan, stmts, pc, loc, resp,
          stream, rows, hnd, ret, nops, got, cached_typeinfo, calc, script>>

\* extract_row_affected on a CommandCompleteBody: tag() fails with the
\* Parse error on a body that is not readable
ExtractRowAffected(readable, tag) ==
    /\ calc' = [f |-> "extract_row_affected", in |-> tag, flag |-> readable,
                ok |-> readable,
                out |-> IF readable THEN extract_row_affected(tag) ELSE 0]
    /\ UNCHANGED <<script, nextId, client, cached_typeinfo, got, clientAlive, senderClosed,
                   buffer, sent, chan, stmts, pc, loc, resp, stream, rows, hnd, ret,
                   nops>>

(***************************************************************************)
(* The type cache of the InnerClient.  Every method locks cached_typeinfo  *)
(* for its one statement, so each is one step.                             *)
(***************************************************************************)
\* the statements the typeinfo queries were prepared as; 0 stands for None
TypeinfoStatements == {1, 2}

CacheFrame ==
    UNCHANGED <<script, nextId, client, got, clientAlive, senderClosed, buffer, sent, chan,
                stmts, pc, loc, resp, stream, rows, hnd, ret, nops>>

\* InnerClient::type_
TypeLookup(c, oid) ==
    /\ calc' = [f |-> "type_", in |-> oid, flag |-> TRUE, ok |-> TRUE,
                out |-> cached_typeinfo.types[oid]]
    /\ cached_typeinfo' = cached_typeinfo
    /\ CacheFrame

\* a cache that holds one type: an insert evicts what was there
SetTypeEvicts(c, oid, ty) ==
    /\ cached_typeinfo' =
          [cached_typeinfo EXCEPT !.types = [o \in Oids |-> IF o = oid THEN ty ELSE "None"]]
    /\ calc' = [f |-> "set_type", in |-> oid, flag |-> TRUE, ok |-> TRUE, out |-> ty]
    /\ CacheFrame

\* InnerClient::set_type
SetType(c, oid, ty) ==
    /\ cached_typeinfo' = [cached_typeinfo EXCEPT !.types[oid] = ty]
    /\ calc' = [f |-> "set_type", in |-> oid, flag |-> TRUE, ok |-> TRUE, out |-> ty]
    /\ CacheFrame

\* InnerClient::clear_type_cache, which Client::clear_type_cache calls
ClearTypeCache(c) ==
    /\ cached_typeinfo' = [cached_typeinfo EXCEPT !.types = [o \in Oids |-> "None"]]
    /\ calc' = [f |-> "clear_type_cache", in |-> 0, flag |-> TRUE, ok |-> TRUE,
                out |-> 0]
    /\ CacheFrame

\* InnerClient::typeinfo, typeinfo_composite, typeinfo_enum
TypeinfoGet(c, which) ==
    /\ calc' = [f |-> which, in |-> 0, flag |-> TRUE, ok |-> TRUE,
                out |-> cached_typeinfo[which]]
    /\ cached_typeinfo' = cached_typeinfo
    /\ CacheFrame

\* InnerClient::set_typeinfo, set_typeinfo_composite, set_typeinfo_enum
TypeinfoSet(c, which, statement) ==
    /\ cached_typeinfo' = [cached_typeinfo EXCEPT ![which] = statement]
    /\ calc' = [f |-> "set_" \o which, in |-> 0, flag |-> TRUE, ok |-> TRUE,
                out |-> statement]
    /\ CacheFrame

TypeinfoFields == {"typeinfo", "typeinfo_composite", "typeinfo_enum"}

\* an operation creates at most one statement
StmtIds == 1..(Cardinality(Callers) * MaxOps)

\* no Row: None of an Option<Row>.  A Row: its statement (s), the position
\* of its DataRow (n) and the number of fields it had (nf), its ranges, one
\* for each field read, Some or None; bor as its RowStream
NoRow == [s |-> 0, n |-> 0, bor |-> FALSE, ranges |-> <<>>, nf |-> 0]

\* a call of Row::get or Row::try_get (api) with a usize or a str (by: i or
\* name) on a Row of ncols columns and nranges ranges, the index it resolved
\* (idx, -1 is None) and the result: Ok, Err or Panic (k) and the error (e)
NoGot == [api |-> "", by |-> "", i |-> 0, name |-> <<>>, columns |-> <<>>, ncols |-> 0, nranges |-> 0,
          nf |-> 0, idx |-> -1, k |-> "", e |-> "", accepts |-> FALSE, conv |-> FALSE,
          null |-> FALSE, cause |-> "", read |-> FALSE, dec |-> FALSE]

\* a Responses: its channel r, the positions left in cur, and how many
\* messages (or errors decoded from one) next has returned
NoResp == [r |-> 0, cur |-> <<>>, taken |-> 0]

\* the locals of an operation: the statement it holds (s), the parameters it
\* was given (np), the statement's count (want), the name and the buffer it
\* encoded, execute_in's rows; text: it was given a query string; sub, closed:
\* the requests it submitted and is_closed() when it started; seen: the
\* replies to its current request that prepare_in or start accepted; first:
\* query_opt_in's first row
NoLoc == [op |-> "", text |-> FALSE, s |-> 0, np |-> 0, want |-> 0,
          name |-> Unnamed, buf |-> <<>>, rowsN |-> 0, sub |-> 0,
          closed |-> FALSE, seen |-> <<>>, first |-> NoRow, tag |-> <<>>,
          nrows |-> 0]

\* a RowStream: statement, responses (r, cur, taken), rows_affected (-1 is
\* None); bor: its statement was cloned from a handle the caller lends it;
\* data, yld: the positions of the DataRows it read and of the Rows it
\* yielded; last, lastK: its last item and the message that made it
NoStreamCountsZero ==
    [s |-> 0, r |-> 0, cur |-> <<>>, taken |-> 0, rows_affected |-> 0,
     bor |-> FALSE, data |-> <<>>, yld |-> <<>>, last |-> "none",
     lastK |-> "none"]
NoStream == [s |-> 0, r |-> 0, cur |-> <<>>, taken |-> 0, rows_affected |-> -1,
             bor |-> FALSE, data |-> <<>>, yld |-> <<>>, last |-> "none",
             lastK |-> "none"]

\* the result of an operation: Ok or Err (k), the error (e), execute's count (v)
\* and the statement returned (s), with the operation's locals; lastK: the
\* last message its Responses decoded, errResp: it was an ErrorResponse;
\* row: the position of the DataRow of the Row returned (0: None), data: the
\* positions of the DataRows read by query_opt_in
NoRet == [op |-> "", text |-> FALSE, k |-> "", e |-> "", v |-> 0, s |-> 0,
          np |-> 0, want |-> 0, sub |-> 0, closed |-> FALSE, errResp |-> FALSE,
          seen |-> <<>>, lastK |-> "none", row |-> 0, data |-> <<>>,
          tag |-> <<>>, nrows |-> 0, enc |-> ""]

\* Client::new: a fresh InnerClient around the sender half of the request channel
Init ==
    /\ nextId = 0
    /\ client = 1
    /\ clientAlive = TRUE
    /\ senderClosed = FALSE
    /\ buffer = <<>>
    /\ sent = <<>>
    /\ chan = <<>>
    /\ stmts = <<>>
    /\ pc = [c \in Callers |-> "idle"]
    /\ loc = [c \in Callers |-> NoLoc]
    /\ resp = [c \in Callers |-> NoResp]
    /\ stream = [c \in Callers |-> NoStream]
    /\ rows = [c \in Callers |-> <<>>]
    /\ hnd = [c \in Callers |-> [s \in StmtIds |-> 0]]
    /\ ret = [c \in Callers |-> NoRet]
    /\ nops = [c \in Callers |-> 0]
    /\ got = NoGot
    /\ cached_typeinfo = NoCache
    /\ calc = NoCalc
    /\ script = NoScript

(***************************************************************************)
(* The shared objects an operation changes: the statements, the write      *)
(* buffer, the request log and the response channels.                      *)
(***************************************************************************)
World == [stmts |-> stmts, buffer |-> buffer, sent |-> sent, chan |-> chan]

\* mpsc::channel(1): tx, rx: the sender and the receiver are alive
NewChan == [q |-> <<>>, tx |-> TRUE, rx |-> TRUE, pushed |-> 0]

\* unbounded_send on a channel that takes a request after it was closed
SendOkAfterClose == TRUE

\* unbounded_send succeeds
SendOk == ~senderClosed

\* a send of one message: the rest of the buffer is left behind
SendHeadOnly(w, msgs) ==
    IF SendOk
    THEN [w EXCEPT !.sent = Append(w.sent, <<Head(msgs)>>),
                   !.chan = Append(w.chan, NewChan)]
    ELSE w

\* InnerClient::send: a fresh response channel and the request on the sender,
\* or nothing (Closed) when the request channel is closed
Send(w, msgs) ==
    IF SendOk
    THEN [w EXCEPT !.sent = Append(w.sent, msgs), !.chan = Append(w.chan, NewChan)]
    ELSE w

\* a channel whose receiver is gone: what is sent on it is discarded
DeadChan == [q |-> <<>>, tx |-> FALSE, rx |-> FALSE, pushed |-> 0]

\* one receiver shared by the requests: dropping it discards the replies of
\* every request
DropResponsesEvery(w, r) ==
    IF r = 0 THEN w
    ELSE [w EXCEPT !.chan = [i \in DOMAIN w.chan |-> DeadChan]]

\* dropping a Responses drops the receiver and what it buffers
DropResponses(w, r) ==
    IF r = 0 THEN w
    ELSE [w EXCEPT !.chan[r] = DeadChan]

(***************************************************************************)
(* InnerClient::with_buf and the closures the encoders run in it.  A       *)
(* closure appends its messages to the buffer and returns buf.split(), all *)
(* the buffer holds, or fails at its message number fail (0: none fails)   *)
(* and leaves in the buffer what it wrote until then.                      *)
(***************************************************************************)
\* the bytes a message that failed to serialize left in the buffer
Partial(m) == [t |-> "Partial", name |-> m.name, np |-> m.np]

\* the messages of a buffer that can fail: Parse on its query string, Bind
\* on the conversion of a parameter
EncFails(msgs) ==
    {0} \cup {i \in DOMAIN msgs :
                 msgs[i].t = "Parse" \/ (msgs[i].t = "Bind" /\ msgs[i].np > 0)}

\* what failed in a closure: a message that did not serialize, or the
\* conversion of a parameter of the Bind (conv)
EncFailed(msgs, fail, conv) ==
    IF fail = 0 THEN ""
    ELSE IF msgs[fail].t = "Bind" /\ conv THEN "BindParam"
    ELSE msgs[fail].t

\* the error of the closure of prepare's encode: map_err(Error::encode)
PrepareEncodeError(failed) == "Encode"

\* the error of encode_bind_raw: Error::to_sql for a parameter that does
\* not convert, Error::encode for a Bind that does not serialize
BindEncodeError(failed) == IF failed = "BindParam" THEN "ToSql" ELSE "Encode"

\* the error of the closure of query_typed_in: the failure of
\* frontend::parse is mapped with Error::parse
TypedEncodeError(failed) ==
    IF failed = "Parse" THEN "Parse" ELSE BindEncodeError(failed)

\* the closure on a buffer holding b: ok, its output and what it leaves
EncodeIn(b, msgs, fail) ==
    IF fail = 0
    THEN [ok |-> TRUE, out |-> b \o msgs, left |-> <<>>]
    ELSE [ok |-> FALSE, out |-> <<>>,
          left |-> b \o SubSeq(msgs, 1, fail - 1) \o <<Partial(msgs[fail])>>]

\* with_buf without its buffer.clear()
WithBufNoClear(b, msgs, fail) ==
    LET r == EncodeIn(b, msgs, fail)
    IN  [ok |-> r.ok, out |-> r.out, buffer |-> r.left]

\* with_buf: lock, run the closure, clear the buffer, return the result
WithBuf(b, msgs, fail) ==
    LET r == EncodeIn(b, msgs, fail)
    IN  [ok |-> r.ok, out |-> r.out, buffer |-> <<>>]

\* the buffer StatementInner::drop encodes
CloseBuf(name) == <<FClose(name), FSync>>

\* a strong reference in place of the Weak: the client is always there
UpgradeStrong(st) == TRUE

\* self.client.upgrade() of a statement
Upgrade(st) == st.cl = client /\ clientAlive

\* a drop that keeps the Responses of its Close to read the reply
StatementInnerDropAwaits(w, s) ==
    IF w.stmts[s].name = Unnamed THEN w
    ELSE IF Upgrade(w.stmts[s])
         THEN LET e == WithBuf(w.buffer, CloseBuf(w.stmts[s].name), 0)
              IN  Send([w EXCEPT !.buffer = e.buffer], e.out)
         ELSE w

\* StatementInner::drop
StatementInnerDrop(w, s) ==
    IF w.stmts[s].name = Unnamed THEN w
    ELSE IF Upgrade(w.stmts[s])
         THEN LET e == WithBuf(w.buffer, CloseBuf(w.stmts[s].name), 0)
              IN  DropResponses(Send([w EXCEPT !.buffer = e.buffer], e.out),
                                IF SendOk THEN Len(w.sent) + 1 ELSE 0)
         ELSE w

\* a Drop written on the handle: the inner drop at every handle's drop
DropStatementEveryHandle(w, s) ==
    IF s = 0 THEN w
    ELSE StatementInnerDrop([w EXCEPT !.stmts[s].rc = @ - 1], s)

\* dropping one Statement handle: the Arc's count, and the inner drop at zero
DropStatement(w, s) ==
    IF s = 0 THEN w
    ELSE LET w1 == [w EXCEPT !.stmts[s].rc = @ - 1]
         IN  IF w1.stmts[s].rc = 0 THEN StatementInnerDrop(w1, s) ELSE w1

\* a clone that copies the pointer without counting it
CloneStatementUncounted(w, s) == w

\* Statement::clone
CloneStatement(w, s) == [w EXCEPT !.stmts[s].rc = @ + 1]

\* Statement::new: cl is the Weak made from the client (0 points to none)
StatementNew(w, name, np, columns) ==
    [w EXCEPT !.stmts = Append(w.stmts,
        [name |-> name, np |-> np, columns |-> columns, cl |-> client, rc |-> 1])]

\* Statement::unnamed_in: an empty name and Weak::new()
StatementUnnamedIn(w, np, columns) ==
    [w EXCEPT !.stmts = Append(w.stmts,
        [name |-> Unnamed, np |-> np, columns |-> columns, cl |-> 0, rc |-> 1])]

\* the Type get_type resolves an OID to
GetType(oid) == IF oid = 16 THEN "bool" ELSE IF oid = 23 THEN "int4" ELSE "unknown"

\* Some(n).filter(|n| *n != 0)
SomeNonZero(n) == IF n # 0 THEN [some |-> TRUE, v |-> n] ELSE [some |-> FALSE, v |-> 0]

\* a Column that keeps the zeros of its field
ColumnOfKeepsZero(field) ==
    [name |-> field.name,
     table_oid |-> [some |-> TRUE, v |-> field.table_oid],
     column_id |-> [some |-> TRUE, v |-> field.column_id],
     type |-> GetType(field.type_oid)]

\* the Column built from one field of the RowDescription
ColumnOf(field) ==
    [name |-> field.name,
     table_oid |-> SomeNonZero(field.table_oid),
     column_id |-> SomeNonZero(field.column_id),
     type |-> GetType(field.type_oid)]

\* a loop that puts each column in front of those it has
RECURSIVE ColumnsOfReversed(_)
ColumnsOfReversed(fields) ==
    IF fields = <<>> THEN <<>>
    ELSE ColumnsOfReversed(Tail(fields)) \o <<ColumnOf(Head(fields))>>

\* the loop over row_description.fields(): one Column pushed for each field
RECURSIVE ColumnsOf(_)
ColumnsOf(fields) ==
    IF fields = <<>> THEN <<>>
    ELSE <<ColumnOf(Head(fields))>> \o ColumnsOf(Tail(fields))

SetWorld(w) ==
    /\ stmts' = w.stmts
    /\ buffer' = w.buffer
    /\ sent' = w.sent
    /\ chan' = w.chan

(***************************************************************************)
(* Responses::poll_next.  The result is Pending, or Ready with a message   *)
(* or an error, together with the batch and the channel it leaves; l is    *)
(* what the frame cur.next() decodes turns out to be.                      *)
(***************************************************************************)
NoMsg == [k |-> "none", a |-> 0, n |-> 0]

\* the match without its ErrorResponse arm: the message is passed on
DecodeErrorAsMessage(m) ==
    [k |-> IF m.k = "Malformed" THEN "Err" ELSE "Ok",
     e |-> IF m.k = "Malformed" THEN "Parse" ELSE ""]

\* the match on self.cur.next(): a frame that does not parse is the Parse
\* error, an ErrorResponse the Db error, any other message is returned
Decode(m) ==
    [k |-> IF m.k \in {"ErrorResponse", "Malformed"} THEN "Err" ELSE "Ok",
     e |-> IF m.k = "ErrorResponse" THEN "Db"
           ELSE IF m.k = "Malformed" THEN "Parse" ELSE ""]

\* self.cur.next() of a batch that is not exhausted
Take(cur, q, l) ==
    LET m == Msg(l, Head(cur))
    IN  [st |-> "Ready", k |-> Decode(m).k, e |-> Decode(m).e, m |-> m,
         cur |-> Tail(cur), q |-> q]

\* a receiver that stays Pending when every sender is gone
RecvClosedWaits(cur, q) ==
    [st |-> "Pending", k |-> "", e |-> "", m |-> NoMsg, cur |-> cur, q |-> q]

\* the receiver's end of stream and its Pending
RecvClosed(cur, q) ==
    [st |-> "Ready", k |-> "Err", e |-> "Closed", m |-> NoMsg, cur |-> cur, q |-> q]
RecvPending(cur, q) ==
    [st |-> "Pending", k |-> "", e |-> "", m |-> NoMsg, cur |-> cur, q |-> q]

\* poll_next taking the next batch of the channel before the buffered one
\* is exhausted
PollNextChannelFirst(cur, q, tx, l) ==
    IF q # <<>> THEN Take(Head(q), Tail(q), l)
    ELSE IF cur # <<>> THEN Take(cur, q, l)
    ELSE IF ~tx THEN RecvClosed(cur, q) ELSE RecvPending(cur, q)

\* poll_next reporting a closed channel before what is buffered is drained
PollNextClosedFirst(cur, q, tx, l) ==
    IF ~tx THEN RecvClosed(cur, q)
    ELSE IF cur # <<>> THEN Take(cur, q, l)
    ELSE IF q # <<>> THEN Take(Head(q), Tail(q), l)
    ELSE RecvPending(cur, q)

RECURSIVE PollNext(_, _, _, _)
PollNext(cur, q, tx, l) ==
    IF cur # <<>> THEN Take(cur, q, l)
    ELSE IF q # <<>> THEN PollNext(Head(q), Tail(q), tx, l)
    ELSE IF ~tx THEN RecvClosed(cur, q) ELSE RecvPending(cur, q)

\* Responses::next of caller c's operation
RespNext(c, l) == PollNext(resp[c].cur, chan[resp[c].r].q, chan[resp[c].r].tx, l)

\* what a poll leaves of the Responses and of its channel
RespAfter(rs, p) ==
    [rs EXCEPT !.cur = p.cur, !.taken = IF p.m = NoMsg THEN @ ELSE @ + 1]
ChanAfter(w, r, p) == [w EXCEPT !.chan[r].q = p.q]

\* the number, within its request, of the frame a poll decodes next; 0
\* when none is buffered
NextFrame(cur, q) ==
    IF cur # <<>> THEN Head(cur)
    ELSE IF q # <<>> /\ Head(q) # <<>> THEN Head(Head(q))
    ELSE 0

\* what the next frame of a Bind request can decode to: anything, unless
\* the backend's replies are fixed
Replies(cur, q) ==
    IF script = NoScript \/ NextFrame(cur, q) = 0 THEN Letters
    ELSE IF NextFrame(cur, q) <= Len(script) THEN {script[NextFrame(cur, q)]}
    ELSE {}

(***************************************************************************)
(* The end of an operation: its result, and the drop of its locals, the    *)
(* Responses first and the Statement it holds after it.                    *)
(***************************************************************************)
Result(c, k, e, v, s, lastK) ==
    [op |-> loc[c].op, text |-> loc[c].text, k |-> k, e |-> e, v |-> v, s |-> s,
     np |-> loc[c].np, want |-> loc[c].want, sub |-> loc[c].sub,
     closed |-> loc[c].closed, errResp |-> (lastK = "ErrorResponse"),
     seen |-> loc[c].seen, lastK |-> lastK, row |-> 0, data |-> <<>>,
     tag |-> loc[c].tag, nrows |-> loc[c].nrows, enc |-> ""]

Return(c, w, result) ==
    /\ SetWorld(w)
    /\ ret' = [ret EXCEPT ![c] = result]
    /\ pc' = [pc EXCEPT ![c] = "idle"]
    /\ loc' = [loc EXCEPT ![c] = NoLoc]
    /\ resp' = [resp EXCEPT ![c] = NoResp]

\* a failure that forgets the Statement it holds instead of dropping it
FailForgets(c, w, e, lastK) ==
    Return(c, DropResponses(w, resp[c].r), Result(c, "Err", e, 0, 0, lastK))

\* a failure of prepare that closes the name it allocated
FailClosesName(c, w, e, lastK) ==
    LET w1 == DropStatement(DropResponses(w, resp[c].r), loc[c].s)
        w2 == IF loc[c].s = 0 /\ loc[c].name # Unnamed
              THEN DropResponses(Send(w1, CloseBuf(loc[c].name)),
                                 IF SendOk THEN Len(w1.sent) + 1 ELSE 0)
              ELSE w1
    IN  Return(c, w2, Result(c, "Err", e, 0, 0, lastK))

\* the operation fails: Err(e)
Fail(c, w, e, lastK) ==
    Return(c, DropStatement(DropResponses(w, resp[c].r), loc[c].s),
           Result(c, "Err", e, 0, 0, lastK))

(***************************************************************************)
(* prepare_in, called by the caller or by into_statement_in for a query    *)
(* string given to query_raw_in or execute_raw_in.                         *)
(***************************************************************************)
\* prepare.rs encode: Parse, Describe('S') and Sync for the name
PrepareBuf(name) == <<FParse(name), FDescribe(name), FSync>>

\* query.rs encode: Bind of the statement on the unnamed portal, Execute, Sync
BindBuf(name, np) == <<FBind(name, np), FExecute, FSync>>

\* encode_bind without its check of the parameter count
ParamsOkUnchecked(np, st) == TRUE

\* encode_bind's check of the parameter count
ParamsOk(np, st) == np = st.np

\* A caller runs one thing at a time: it starts an operation on the client
\* when it has dropped the RowStream and the Rows of its last query.
CanStart(c) ==
    /\ pc[c] = "idle"
    /\ clientAlive
    /\ stream[c] = NoStream
    /\ rows[c] = <<>>
    /\ nops[c] < MaxOps
    /\ nops' = [nops EXCEPT ![c] = @ + 1]

\* a load and a store in place of the atomic: the increment is lost
FetchAddLost(n) == n

\* NEXT_ID.fetch_add(1, Ordering::SeqCst): the value it leaves in NEXT_ID
FetchAdd(n) == n + 1

\* the name from NEXT_ID and the encoded buffer, or the error of encode
PrepareStart(c, op, np) ==
    /\ CanStart(c)
    /\ nextId' = FetchAdd(nextId)
    /\ \E fail \in EncFails(PrepareBuf(StmtName(nextId))) :
       LET e == WithBuf(buffer, PrepareBuf(StmtName(nextId)), fail)
           l0 == [NoLoc EXCEPT !.op = op, !.text = (op # "prepare"), !.np = np,
                     !.name = StmtName(nextId), !.buf = e.out, !.closed = senderClosed]
       IN  /\ buffer' = e.buffer
           /\ IF e.ok
              THEN /\ loc' = [loc EXCEPT ![c] = l0]
                   /\ pc' = [pc EXCEPT ![c] = "prep_send"]
                   /\ ret' = [ret EXCEPT ![c] = NoRet]
              ELSE /\ ret' = [ret EXCEPT ![c] =
                          [NoRet EXCEPT !.op = op, !.text = l0.text, !.k = "Err",
                                        !.e = PrepareEncodeError(
                                            EncFailed(PrepareBuf(StmtName(nextId)),
                                                      fail, FALSE)),
                                        !.enc = EncFailed(PrepareBuf(StmtName(nextId)),
                                                          fail, FALSE),
                                        !.np = np,
                                        !.closed = senderClosed]]
                   /\ UNCHANGED <<loc, pc>>
    /\ UNCHANGED <<script, client, calc, cached_typeinfo, got, clientAlive, senderClosed, sent, chan, stmts, resp, stream,
                   rows, hnd>>

\* client.send of the buffer an operation encoded
SendBuf(c, then) ==
    IF SendOk
    THEN /\ SetWorld(Send(World, loc[c].buf))
         /\ resp' = [resp EXCEPT ![c] = [NoResp EXCEPT !.r = Len(sent) + 1]]
         /\ pc' = [pc EXCEPT ![c] = then]
         /\ loc' = [loc EXCEPT ![c].sub = @ + 1]
         /\ ret' = ret
    ELSE Fail(c, World, "Closed", "none")

PrepareSend(c) ==
    /\ pc[c] = "prep_send"
    /\ SendBuf(c, "prep_pc")
    /\ UNCHANGED <<script, nextId, client, calc, cached_typeinfo, got, clientAlive, senderClosed, stream, rows, hnd, nops>>

\* a match that also takes the description of the rows for the second reply
PrepareExpectsLoose(at, k) ==
    CASE at = "prep_pc" -> k = "ParseComplete"
      [] at = "prep_pd" -> k \in {"ParameterDescription", "RowDescription", "NoData"}
      [] at = "prep_rd" -> k \in {"RowDescription", "NoData"}
      [] OTHER -> FALSE

\* the message prepare_in expects at each of its three awaits
PrepareExpects(at, k) ==
    CASE at = "prep_pc" -> k = "ParseComplete"
      [] at = "prep_pd" -> k = "ParameterDescription"
      [] at = "prep_rd" -> k \in {"RowDescription", "NoData"}
      [] OTHER -> FALSE

\* the statement prepare_in returns, given to the caller (prepare) or encoded
\* by query_in / execute_in (a query string)
Prepared(c, w, m, fail, conv) ==
    LET s == Len(stmts) + 1
        w1 == DropResponses(StatementNew(w, loc[c].name, loc[c].want,
                                IF m.k = "NoData" THEN <<>> ELSE ColumnsOf(m.a)),
                            resp[c].r)
        e == WithBuf(w1.buffer, BindBuf(loc[c].name, loc[c].np), fail)
        w2 == [w1 EXCEPT !.buffer = e.buffer]
        failed == EncFailed(BindBuf(loc[c].name, loc[c].np), fail, conv)
    IN  IF ~loc[c].text
        THEN /\ Return(c, w1, Result(c, "Ok", "", 0, s, m.k))
             /\ hnd' = [hnd EXCEPT ![c][s] = 1]
        ELSE /\ hnd' = hnd
             /\ IF ~ParamsOk(loc[c].np, w1.stmts[s])
                THEN Return(c, DropStatement(w1, s),
                            Result(c, "Err", "Parameters", 0, 0, m.k))
                ELSE IF ~e.ok
                THEN Return(c, DropStatement(w2, s),
                            [Result(c, "Err", BindEncodeError(failed), 0, 0, m.k)
                                EXCEPT !.enc = failed])
                ELSE /\ SetWorld(w2)
                     /\ loc' = [loc EXCEPT ![c].s = s, ![c].buf = e.out,
                                           ![c].seen = <<>>]
                     /\ resp' = [resp EXCEPT ![c] = NoResp]
                     /\ pc' = [pc EXCEPT ![c] = "bind_send"]
                     /\ ret' = ret

\* one responses.next().await of prepare_in and the match on its message;
\* typeOk: get_type resolves every parameter and column type; fail: the
\* message of the Bind buffer that fails to encode, for a query string
PrepareNext(c) ==
    /\ pc[c] \in {"prep_pc", "prep_pd", "prep_rd"}
    /\ \E l \in Letters :
       LET p == RespNext(c, l)
           w == ChanAfter(World, resp[c].r, p)
       IN  /\ p.st = "Ready"
           /\ IF p.k = "Err"
              THEN Fail(c, w, p.e, p.m.k) /\ hnd' = hnd
              ELSE IF ~PrepareExpects(pc[c], p.m.k)
              THEN Fail(c, w, "UnexpectedMessage", p.m.k) /\ hnd' = hnd
              ELSE IF pc[c] = "prep_pc"
              THEN /\ SetWorld(w)
                   /\ resp' = [resp EXCEPT ![c] = RespAfter(@, p)]
                   /\ pc' = [pc EXCEPT ![c] = "prep_pd"]
                   /\ loc' = [loc EXCEPT ![c].seen = Append(@, p.m.k)]
                   /\ UNCHANGED <<ret, hnd>>
              ELSE IF pc[c] = "prep_pd"
              THEN /\ SetWorld(w)
                   /\ resp' = [resp EXCEPT ![c] = RespAfter(@, p)]
                   /\ pc' = [pc EXCEPT ![c] = "prep_rd"]
                   /\ loc' = [loc EXCEPT ![c].want = p.m.a,
                                         ![c].seen = Append(@, p.m.k)]
                   /\ UNCHANGED <<ret, hnd>>
              ELSE \E typeOk \in BOOLEAN, conv \in BOOLEAN,
                      fail \in EncFails(BindBuf(loc[c].name, loc[c].np)) :
                   IF typeOk THEN Prepared(c, w, p.m, fail, conv)
                   ELSE Fail(c, w, "Type", p.m.k) /\ hnd' = hnd
    /\ UNCHANGED <<script, nextId, client, calc, cached_typeinfo, got, clientAlive, senderClosed, stream, rows, nops>>

(***************************************************************************)
(* query_in and execute_in on a Statement handle the caller holds.         *)
(***************************************************************************)
\* into_statement_in clones the handle; encode checks the parameters and
\* encodes the buffer
BindStart(c, op, s, np) ==
    /\ CanStart(c)
    /\ hnd[c][s] > 0
    /\ \E fail \in EncFails(BindBuf(stmts[s].name, np)), conv \in BOOLEAN :
       LET e == WithBuf(buffer, BindBuf(stmts[s].name, np), fail)
           failed == EncFailed(BindBuf(stmts[s].name, np), fail, conv)
           l0 == [NoLoc EXCEPT !.op = op, !.s = s, !.np = np, !.want = stmts[s].np,
                     !.buf = e.out, !.closed = senderClosed]
           err(x) == [NoRet EXCEPT !.op = op, !.k = "Err", !.e = x, !.np = np,
                                   !.want = stmts[s].np, !.closed = senderClosed]
       IN  IF ~ParamsOk(np, stmts[s])
           THEN /\ ret' = [ret EXCEPT ![c] = err("Parameters")]
                /\ UNCHANGED <<stmts, buffer, sent, chan, loc, pc, resp>>
           ELSE IF ~e.ok
           THEN /\ ret' = [ret EXCEPT ![c] =
                              [err(BindEncodeError(failed)) EXCEPT !.enc = failed]]
                /\ buffer' = e.buffer
                /\ UNCHANGED <<stmts, sent, chan, loc, pc, resp>>
           ELSE /\ SetWorld([CloneStatement(World, s) EXCEPT !.buffer = e.buffer])
                /\ loc' = [loc EXCEPT ![c] = l0]
                /\ pc' = [pc EXCEPT ![c] = "bind_send"]
                /\ ret' = [ret EXCEPT ![c] = NoRet]
                /\ resp' = resp
    /\ UNCHANGED <<script, nextId, client, calc, cached_typeinfo, got, clientAlive, senderClosed, stream, rows, hnd>>

\* start: client.send of the buffer
BindSend(c) ==
    /\ pc[c] = "bind_send"
    /\ SendBuf(c, "bind_wait")
    /\ UNCHANGED <<script, nextId, client, calc, cached_typeinfo, got, clientAlive, senderClosed, stream, rows, hnd, nops>>

\* a match that lets every message but a row through
StartExpectsNoRow(k) == k # "DataRow"

\* the match of start on the first reply
StartExpects(k) == k = "BindComplete"

\* start: the first reply must be BindComplete; query_in then returns the
\* RowStream, execute_in enters its loop
BindWait(c) ==
    /\ pc[c] = "bind_wait"
    /\ \E l \in Replies(resp[c].cur, chan[resp[c].r].q) :
       LET p == RespNext(c, l)
           w == ChanAfter(World, resp[c].r, p)
           rs == RespAfter(resp[c], p)
       IN  /\ p.st = "Ready"
           /\ IF p.k = "Err"
              THEN Fail(c, w, p.e, p.m.k) /\ stream' = stream
              ELSE IF ~StartExpects(p.m.k)
              THEN Fail(c, w, "UnexpectedMessage", p.m.k) /\ stream' = stream
              ELSE IF loc[c].op = "query"
              THEN /\ Return(c, w, Result(c, "Ok", "", 0, loc[c].s, p.m.k))
                   /\ stream' = [stream EXCEPT ![c] =
                         [NoStream EXCEPT !.s = loc[c].s, !.r = rs.r, !.cur = rs.cur,
                                          !.taken = rs.taken, !.bor = ~loc[c].text]]
              ELSE IF loc[c].op = "execute"
              THEN /\ SetWorld(w)
                   /\ resp' = [resp EXCEPT ![c] = rs]
                   /\ pc' = [pc EXCEPT ![c] = "x_loop"]
                   /\ loc' = [loc EXCEPT ![c].seen = Append(@, p.m.k)]
                   /\ UNCHANGED <<ret, stream>>
              ELSE /\ SetWorld(w)
                   /\ stream' = [stream EXCEPT ![c] =
                         [NoStream EXCEPT !.s = loc[c].s, !.r = rs.r, !.cur = rs.cur,
                                          !.taken = rs.taken, !.bor = ~loc[c].text]]
                   /\ resp' = [resp EXCEPT ![c] = NoResp]
                   /\ pc' = [pc EXCEPT ![c] = "opt_loop"]
                   /\ loc' = [loc EXCEPT ![c].seen = Append(@, p.m.k)]
                   /\ ret' = ret
    /\ UNCHANGED <<script, nextId, client, calc, cached_typeinfo, got, clientAlive, senderClosed, rows, hnd, nops>>

\* a loop that counts the DataRows it reads
ExecuteRowsCountsData(n, m) ==
    CASE m.k = "CommandComplete" -> extract_row_affected(m.a)
      [] m.k = "EmptyQueryResponse" -> 0
      [] m.k = "DataRow" -> n + 1
      [] OTHER -> n

\* rows (n) after the arms of execute_in's loop that do not return
ExecuteRows(n, m) ==
    CASE m.k = "CommandComplete" -> extract_row_affected(m.a)
      [] m.k = "EmptyQueryResponse" -> 0
      [] OTHER -> n

\* one turn of execute_in's loop
ExecuteNext(c) ==
    /\ pc[c] = "x_loop"
    /\ \E l \in Replies(resp[c].cur, chan[resp[c].r].q) :
       LET p == RespNext(c, l)
           w == ChanAfter(World, resp[c].r, p)
       IN  /\ p.st = "Ready"
           /\ IF p.k = "Err"
              THEN Fail(c, w, p.e, p.m.k)
              ELSE IF p.m.k \in {"DataRow", "CommandComplete", "EmptyQueryResponse"}
              THEN /\ SetWorld(w)
                   /\ resp' = [resp EXCEPT ![c] = RespAfter(@, p)]
                   /\ loc' = [loc EXCEPT ![c].rowsN = ExecuteRows(@, p.m),
                                 ![c].tag = IF p.m.k = "CommandComplete" THEN p.m.a
                                            ELSE @,
                                 ![c].nrows = IF p.m.k = "DataRow" THEN @ + 1 ELSE @]
                   /\ UNCHANGED <<pc, ret>>
              ELSE IF p.m.k = "ReadyForQuery"
              THEN Return(c, DropStatement(DropResponses(w, resp[c].r), loc[c].s),
                          Result(c, "Ok", "", loc[c].rowsN, 0, p.m.k))
              ELSE Fail(c, w, "UnexpectedMessage", p.m.k)
    /\ UNCHANGED <<script, nextId, client, calc, cached_typeinfo, got, clientAlive, senderClosed, stream, rows, hnd, nops>>

(***************************************************************************)
(* query_typed_in                                                          *)
(***************************************************************************)
\* Parse, Bind, Describe('S'), Execute and Sync on the unnamed statement
TypedBuf(np) == <<FParse(Unnamed), FBind(Unnamed, np), FDescribe(Unnamed),
                  FExecute, FSync>>

\* the buffer query_typed_in encodes, or the error of its closure
TypedStart(c, np) ==
    /\ CanStart(c)
    /\ \E fail \in EncFails(TypedBuf(np)), conv \in BOOLEAN :
       LET e == WithBuf(buffer, TypedBuf(np), fail)
           failed == EncFailed(TypedBuf(np), fail, conv)
       IN  /\ buffer' = e.buffer
           /\ IF e.ok
              THEN /\ loc' = [loc EXCEPT ![c] = [NoLoc EXCEPT !.op = "typed",
                            !.np = np, !.want = np, !.buf = e.out,
                            !.closed = senderClosed]]
                   /\ pc' = [pc EXCEPT ![c] = "typed_send"]
                   /\ ret' = [ret EXCEPT ![c] = NoRet]
              ELSE /\ ret' = [ret EXCEPT ![c] =
                          [NoRet EXCEPT !.op = "typed", !.k = "Err",
                                        !.e = TypedEncodeError(failed),
                                        !.enc = failed,
                                        !.np = np, !.want = np,
                                        !.closed = senderClosed]]
                   /\ UNCHANGED <<loc, pc>>
    /\ UNCHANGED <<script, nextId, client, calc, cached_typeinfo, got, clientAlive, senderClosed, sent, chan, stmts, resp,
                   stream, rows, hnd>>

TypedSend(c) ==
    /\ pc[c] = "typed_send"
    /\ SendBuf(c, "typed_wait")
    /\ UNCHANGED <<script, nextId, client, calc, cached_typeinfo, got, clientAlive, senderClosed, stream, rows, hnd, nops>>

\* one turn of query_typed_in's loop on a reply that decodes to l; typeOk:
\* get_type resolves every column
TypedNextL(c, l) ==
    /\ pc[c] = "typed_wait"
    /\ LET p == RespNext(c, l)
           w == ChanAfter(World, resp[c].r, p)
           rs == RespAfter(resp[c], p)
       IN  /\ p.st = "Ready"
           /\ IF p.k = "Err"
              THEN Fail(c, w, p.e, p.m.k) /\ stream' = stream
              ELSE IF p.m.k \in {"ParseComplete", "BindComplete", "ParameterDescription"}
              THEN /\ SetWorld(w)
                   /\ resp' = [resp EXCEPT ![c] = rs]
                   /\ UNCHANGED <<pc, loc, ret, stream>>
              ELSE IF p.m.k \in {"NoData", "RowDescription"}
              THEN \E typeOk \in BOOLEAN :
                   IF typeOk \/ p.m.k = "NoData"
                   THEN /\ Return(c, StatementUnnamedIn(w, 0,
                                      IF p.m.k = "NoData" THEN <<>>
                                      ELSE ColumnsOf(p.m.a)),
                                  Result(c, "Ok", "", 0, Len(stmts) + 1, p.m.k))
                        /\ stream' = [stream EXCEPT ![c] =
                              [NoStream EXCEPT !.s = Len(stmts) + 1, !.r = rs.r,
                                               !.cur = rs.cur, !.taken = rs.taken]]
                   ELSE Fail(c, w, "Type", p.m.k) /\ stream' = stream
              ELSE Fail(c, w, "UnexpectedMessage", p.m.k) /\ stream' = stream
    /\ UNCHANGED <<script, nextId, client, calc, cached_typeinfo, got, clientAlive, senderClosed, rows, hnd, nops>>

TypedNext(c) == \E l \in Letters : TypedNextL(c, l)

(***************************************************************************)
(* RowStream                                                               *)
(***************************************************************************)
\* the match with PortalSuspended taken for the end of the rows
RowStreamArmSuspendedEnds(k) ==
    CASE k = "DataRow" -> "row"
      [] k = "CommandComplete" -> "affected"
      [] k = "EmptyQueryResponse" -> "skip"
      [] k \in {"ReadyForQuery", "PortalSuspended"} -> "end"
      [] OTHER -> "unexpected"

\* the arm of RowStream::poll_next's match that takes a message of kind k
RowStreamArm(k) ==
    CASE k = "DataRow" -> "row"
      [] k = "CommandComplete" -> "affected"
      [] k \in {"EmptyQueryResponse", "PortalSuspended"} -> "skip"
      [] k = "ReadyForQuery" -> "end"
      [] OTHER -> "unexpected"

\* RowStream::rows_affected
rows_affected(c) == stream[c].rows_affected

\* the RowStream after a pull p of its Responses
StreamAfter(st, p) ==
    [st EXCEPT !.cur = p.cur,
               !.taken = IF p.m = NoMsg THEN @ ELSE @ + 1,
               !.data = IF p.m.k = "DataRow" THEN Append(@, p.m.n) ELSE @,
               !.lastK = IF p.st = "Ready" THEN p.m.k ELSE @]

\* the try_fold over body.ranges(): every range pushed, in order
RECURSIVE RangesOf(_)
RangesOf(fields) ==
    IF fields = <<>> THEN <<>>
    ELSE <<Head(fields)>> \o RangesOf(Tail(fields))

\* Row::new on the DataRow m of the RowStream st
NewRow(st, m) ==
    [s |-> st.s, n |-> m.n, bor |-> st.bor, ranges |-> RangesOf(m.a),
     nf |-> Len(m.a)]

\* One turn of the loop of RowStream::poll_next.  The poll starts with the
\* caller idle; after CommandComplete, EmptyQueryResponse and PortalSuspended
\* it goes on ("s_poll") until an item is ready or the Responses is pending.
StreamPoll(c) ==
    /\ pc[c] \in {"idle", "s_poll"}
    /\ stream[c] # NoStream
    /\ \E l \in Replies(stream[c].cur, chan[stream[c].r].q) :
       LET st == stream[c]
           p == PollNext(st.cur, chan[st.r].q, chan[st.r].tx, l)
           w == ChanAfter(World, st.r, p)
           arm == RowStreamArm(p.m.k)
           st1 == [st EXCEPT !.cur = p.cur,
                             !.taken = IF p.m = NoMsg THEN @ ELSE @ + 1,
                             !.data = IF p.m.k = "DataRow" THEN Append(@, p.m.n) ELSE @,
                             !.lastK = IF p.st = "Ready" THEN p.m.k ELSE @]
       IN  IF p.st = "Pending"
           THEN /\ pc[c] = "s_poll"
                /\ pc' = [pc EXCEPT ![c] = "idle"]
                /\ UNCHANGED <<stmts, buffer, sent, chan, stream, rows>>
           ELSE IF p.k = "Err"
           THEN /\ SetWorld(w)
                /\ stream' = [stream EXCEPT ![c] = [st1 EXCEPT !.last = p.e]]
                /\ pc' = [pc EXCEPT ![c] = "idle"]
                /\ rows' = rows
           ELSE IF arm = "row"
           THEN /\ SetWorld(CloneStatement(w, st.s))
                /\ stream' = [stream EXCEPT ![c] =
                       [st1 EXCEPT !.last = "row", !.yld = Append(@, p.m.n)]]
                /\ rows' = [rows EXCEPT ![c] = Append(@, NewRow(st, p.m))]
                /\ pc' = [pc EXCEPT ![c] = "idle"]
           ELSE IF arm = "affected"
           THEN /\ SetWorld(w)
                /\ stream' = [stream EXCEPT ![c] =
                       [st1 EXCEPT !.rows_affected = extract_row_affected(p.m.a)]]
                /\ pc' = [pc EXCEPT ![c] = "s_poll"]
                /\ rows' = rows
           ELSE IF arm = "skip"
           THEN /\ SetWorld(w)
                /\ stream' = [stream EXCEPT ![c] = st1]
                /\ pc' = [pc EXCEPT ![c] = "s_poll"]
                /\ rows' = rows
           ELSE /\ SetWorld(w)
                /\ stream' = [stream EXCEPT ![c] = [st1 EXCEPT !.last =
                       IF arm = "end" THEN "end" ELSE "UnexpectedMessage"]]
                /\ pc' = [pc EXCEPT ![c] = "idle"]
                /\ rows' = rows
    /\ UNCHANGED <<script, nextId, client, calc, cached_typeinfo, got, clientAlive, senderClosed, loc, resp, hnd, ret, nops>>

(***************************************************************************)
(* query_opt_in and query_one_in: query_raw_in, then the loop over the     *)
(* RowStream, which the operation holds until it returns.                  *)
(***************************************************************************)
OptOps == {"query_opt", "query_one"}

\* a loop body that keeps the row it read last
OptOnRowKeepsLast(first, row) == [k |-> "continue", first |-> row]

\* a loop body that returns the first row without looking further
OptOnRowFirstOnly(first, row) == [k |-> "return", first |-> row]

\* the body of the loop on a row: what it does next and what first is
\* after it; a second row is the RowCount error
OptOnRow(first, row) ==
    IF first # NoRow THEN [k |-> "RowCount", first |-> first]
    ELSE [k |-> "continue", first |-> row]

\* query_one_in: ok_or_else(Error::row_count) on query_opt_in's Ok
OkOr(op, first) ==
    IF op = "query_one" /\ first = NoRow THEN [k |-> "Err", e |-> "RowCount"]
    ELSE [k |-> "Ok", e |-> ""]

\* the operation returns: it drops the rows it does not return, the
\* RowStream's statement and its Responses
OptReturn(c, w, st, k, e, first, dropped) ==
    LET w1 == IF dropped = 0 THEN w
              ELSE IF dropped = 1 THEN DropStatement(w, st.s)
              ELSE DropStatement(DropStatement(w, st.s), st.s)
        w2 == DropResponses(DropStatement(w1, st.s), st.r)
    IN  /\ Return(c, w2, [Result(c, k, e, 0, 0, st.lastK) EXCEPT
                             !.row = IF k = "Ok" THEN first.n ELSE 0,
                             !.data = st.data])
        /\ stream' = [stream EXCEPT ![c] = NoStream]
        /\ rows' = [rows EXCEPT ![c] = IF k = "Ok" /\ first # NoRow THEN <<first>>
                                       ELSE <<>>]

\* one stream.try_next().await? of the loop and its body; OnRow is the
\* body on a row and OrElse what the operation makes of the loop's Ok
OptLoop(c, OnRow(_, _), OrElse(_, _)) ==
    /\ pc[c] = "opt_loop"
    /\ \E l \in Replies(stream[c].cur, chan[stream[c].r].q) :
       LET st == stream[c]
           p == PollNext(st.cur, chan[st.r].q, chan[st.r].tx, l)
           w == ChanAfter(World, st.r, p)
           arm == RowStreamArm(p.m.k)
           st1 == StreamAfter(st, p)
           first == loc[c].first
           held == IF first = NoRow THEN 0 ELSE 1
           on == OnRow(first, NewRow(st, p.m))
       IN  /\ p.st = "Ready"
           /\ IF p.k = "Err"
              THEN OptReturn(c, w, st1, "Err", p.e, first, held)
              ELSE IF arm = "row"
              THEN IF on.k = "RowCount"
                   THEN OptReturn(c, CloneStatement(w, st.s), st1, "Err", "RowCount",
                                  first, held + 1)
                   ELSE IF on.k = "continue"
                   THEN /\ SetWorld(IF first = NoRow THEN CloneStatement(w, st.s)
                                    ELSE w)
                        /\ stream' = [stream EXCEPT ![c] = st1]
                        /\ loc' = [loc EXCEPT ![c].first = on.first]
                        /\ UNCHANGED <<pc, resp, ret, rows>>
                   ELSE OptReturn(c, CloneStatement(w, st.s), st1, "Ok", "",
                                  on.first, held)
              ELSE IF arm = "affected"
              THEN /\ SetWorld(w)
                   /\ stream' = [stream EXCEPT ![c] =
                          [st1 EXCEPT !.rows_affected = extract_row_affected(p.m.a)]]
                   /\ UNCHANGED <<pc, loc, resp, ret, rows>>
              ELSE IF arm = "skip"
              THEN /\ SetWorld(w)
                   /\ stream' = [stream EXCEPT ![c] = st1]
                   /\ UNCHANGED <<pc, loc, resp, ret, rows>>
              ELSE IF arm = "end"
              THEN OptReturn(c, w, st1, OrElse(loc[c].op, first).k,
                             OrElse(loc[c].op, first).e, first,
                             IF OrElse(loc[c].op, first).k = "Ok" THEN 0 ELSE held)
              ELSE OptReturn(c, w, st1, "Err", "UnexpectedMessage", first, held)
    /\ UNCHANGED <<script, nextId, client, calc, cached_typeinfo, got, clientAlive, senderClosed, hnd, nops>>

\* query_opt_in and query_one_in in their loop
OptNext(c) == loc[c].op \in OptOps /\ OptLoop(c, OptOnRow, OkOr)

(***************************************************************************)
(* Client::query_opt and Client::query_one, the heap operations: query_raw *)
(* and the loop over its RowStream.                                        *)
(***************************************************************************)
HeapOps == {"Client::query_opt", "Client::query_one"}

\* the heap operation that corresponds to an arena operation
HeapOf(op) == IF op = "query_opt" THEN "Client::query_opt" ELSE "Client::query_one"

\* a loop body of Client::query_opt that keeps the row it read last
HeapOptOnRowKeepsLast(first, row) == [k |-> "continue", first |-> row]

\* the body of Client::query_opt's loop on a row
HeapOptOnRow(first, row) ==
    IF first # NoRow THEN [k |-> "RowCount", first |-> first]
    ELSE [k |-> "continue", first |-> row]

\* Client::query_one: ok_or_else(Error::row_count) on query_opt's Ok
HeapOkOr(op, first) ==
    IF op = "Client::query_one" /\ first = NoRow THEN [k |-> "Err", e |-> "RowCount"]
    ELSE [k |-> "Ok", e |-> ""]

\* Client::query_opt and Client::query_one in their loop
HeapOptNext(c) == loc[c].op \in HeapOps /\ OptLoop(c, HeapOptOnRow, HeapOkOr)

(***************************************************************************)
(* query_in and Client::query: query_raw_in or query_raw, then the fold of *)
(* the RowStream into a vector of its rows.                                *)
(***************************************************************************)
CollectOps == {"query_in", "Client::query"}

\* vec.push(row), the body of the fold
VecPush(vec, row) == Append(vec, row)

\* dropping the vector: each Row drops its Statement
RECURSIVE DropRows(_, _)
DropRows(w, vec) ==
    IF vec = <<>> THEN w ELSE DropRows(DropStatement(w, Head(vec).s), Tail(vec))

\* a fold that hands the caller the rows it holds when it fails
CollectReturnKeepsRows(c, w, st, k, e) ==
    /\ Return(c, DropResponses(DropStatement(w, st.s), st.r),
              [Result(c, k, e, 0, 0, st.lastK) EXCEPT !.data = st.data])
    /\ stream' = [stream EXCEPT ![c] = NoStream]
    /\ rows' = rows

\* the operation returns Ok(vec), or the error after dropping the vector;
\* the RowStream's statement and its Responses are dropped
CollectReturn(c, w, st, k, e) ==
    LET w1 == IF k = "Ok" THEN w ELSE DropRows(w, rows[c])
        w2 == DropResponses(DropStatement(w1, st.s), st.r)
    IN  /\ Return(c, w2, [Result(c, k, e, 0, 0, st.lastK) EXCEPT !.data = st.data])
        /\ stream' = [stream EXCEPT ![c] = NoStream]
        /\ rows' = [rows EXCEPT ![c] = IF k = "Ok" THEN @ ELSE <<>>]

\* one turn of try_fold (try_collect): the stream's next item and the push
CollectNext(c) ==
    /\ pc[c] = "opt_loop"
    /\ loc[c].op \in CollectOps
    /\ \E l \in Replies(stream[c].cur, chan[stream[c].r].q) :
       LET st == stream[c]
           p == PollNext(st.cur, chan[st.r].q, chan[st.r].tx, l)
           w == ChanAfter(World, st.r, p)
           arm == RowStreamArm(p.m.k)
           st1 == StreamAfter(st, p)
       IN  /\ p.st = "Ready"
           /\ IF p.k = "Err"
              THEN CollectReturn(c, w, st1, "Err", p.e)
              ELSE IF arm = "row"
              THEN /\ SetWorld(CloneStatement(w, st.s))
                   /\ stream' = [stream EXCEPT ![c] =
                          [st1 EXCEPT !.yld = Append(@, p.m.n)]]
                   /\ rows' = [rows EXCEPT ![c] = VecPush(@, NewRow(st, p.m))]
                   /\ UNCHANGED <<pc, loc, resp, ret>>
              ELSE IF arm = "affected"
              THEN /\ SetWorld(w)
                   /\ stream' = [stream EXCEPT ![c] =
                          [st1 EXCEPT !.rows_affected = extract_row_affected(p.m.a)]]
                   /\ UNCHANGED <<pc, loc, resp, ret, rows>>
              ELSE IF arm = "skip"
              THEN /\ SetWorld(w)
                   /\ stream' = [stream EXCEPT ![c] = st1]
                   /\ UNCHANGED <<pc, loc, resp, ret, rows>>
              ELSE IF arm = "end"
              THEN CollectReturn(c, w, st1, "Ok", "")
              ELSE CollectReturn(c, w, st1, "Err", "UnexpectedMessage")
    /\ UNCHANGED <<script, nextId, client, calc, cached_typeinfo, got, clientAlive, senderClosed, hnd, nops>>

\* the replies a backend gives to one Bind request
ScriptLetters ==
    {l \in Letters : /\ l.k \in {"BindComplete", "DataRow", "CommandComplete",
                                  "EmptyQueryResponse", "ReadyForQuery",
                                  "ErrorResponse", "Malformed"}
                     /\ l.k = "CommandComplete" => l.a = TagSelect1}
Scripts == [1..MaxMsgs -> ScriptLetters]

\* the backend is set to answer every Bind request from now on with the
\* replies seq
BackendScript(seq) ==
    /\ script = NoScript
    /\ script' = seq
    /\ UNCHANGED <<nextId, client, calc, cached_typeinfo, got, clientAlive, senderClosed,
                   buffer, sent, chan, stmts, pc, loc, resp, stream, rows, hnd, ret,
                   nops>>

\* the caller drops its RowStream: the statement, then the Responses
StreamDrop(c) ==
    /\ pc[c] = "idle"
    /\ stream[c] # NoStream
    /\ SetWorld(DropResponses(DropStatement(World, stream[c].s), stream[c].r))
    /\ stream' = [stream EXCEPT ![c] = NoStream]
    /\ UNCHANGED <<script, nextId, client, calc, cached_typeinfo, got, clientAlive, senderClosed, pc, loc, resp, rows, hnd, ret, nops>>

\* the caller drops the i-th Row it holds
RowDrop(c, i) ==
    /\ pc[c] = "idle"
    /\ i \in DOMAIN rows[c]
    /\ SetWorld(DropStatement(World, rows[c][i].s))
    /\ rows' = [rows EXCEPT ![c] = SubSeq(@, 1, i - 1) \o SubSeq(@, i + 1, Len(@))]
    /\ UNCHANGED <<script, nextId, client, calc, cached_typeinfo, got, clientAlive, senderClosed, pc, loc, resp, stream, hnd, ret, nops>>

(***************************************************************************)
(* Row: the index of a column, get and try_get, clean_body.  Indices are   *)
(* counted from 0 as in the source, and -1 stands for None.                *)
(***************************************************************************)
\* u8::to_ascii_lowercase on the letters of the names used
Lower(ch) == CASE ch = "I" -> "i"
               [] ch = "D" -> "d"
               [] ch = "X" -> "x"
               [] OTHER -> ch

\* str::eq_ignore_ascii_case
EqIgnoreAsciiCase(a, b) ==
    /\ Len(a) = Len(b)
    /\ \A j \in 1..Len(a) : Lower(a[j]) = Lower(b[j])

\* columns.iter().position(|d| d.as_name() == name), from index at
RECURSIVE PositionEq(_, _, _)
PositionEq(columns, name, at) ==
    IF at >= Len(columns) THEN -1
    ELSE IF columns[at + 1].name = name THEN at
    ELSE PositionEq(columns, name, at + 1)

\* columns.iter().position(|d| d.as_name().eq_ignore_ascii_case(name))
RECURSIVE PositionIgnoreCase(_, _, _)
PositionIgnoreCase(columns, name, at) ==
    IF at >= Len(columns) THEN -1
    ELSE IF EqIgnoreAsciiCase(columns[at + 1].name, name) THEN at
    ELSE PositionIgnoreCase(columns, name, at + 1)

\* one pass that takes the first column matching in either way
StrIdxOnePass(name, columns) == PositionIgnoreCase(columns, name, 0)

\* RowIndex for str: the exact match first, then the case-insensitive one
StrIdx(name, columns) ==
    IF PositionEq(columns, name, 0) # -1 THEN PositionEq(columns, name, 0)
    ELSE PositionIgnoreCase(columns, name, 0)

\* RowIndex for usize
UsizeIdx(i, columns) == IF i >= Len(columns) THEN -1 ELSE i

\* the numeric indices and the names a caller asks for
AskIndices == 0..2
AskNames == {<<"I", "d">>, <<"i", "d">>, <<"I", "D">>, <<"x">>}

\* the result of get_inner: cause tells the two from_sql errors apart, read
\* is whether self.ranges[idx] was evaluated and dec whether
\* from_sql_nullable was called
Got(k, e, cause, read, dec) ==
    [k |-> k, e |-> e, cause |-> cause, read |-> read, dec |-> dec]

\* a get_inner that fetches and converts the value before it looks at the type
GetInnerDecodeFirst(row, columns, idx, accepts, conv) ==
    IF idx = -1 THEN Got("Err", "Column", "", FALSE, FALSE)
    ELSE IF idx >= Len(row.ranges) THEN Got("Panic", "Bounds", "", TRUE, FALSE)
    ELSE IF ~conv THEN Got("Err", "FromSql", "Decode", TRUE, TRUE)
    ELSE IF ~accepts THEN Got("Err", "FromSql", "WrongType", TRUE, TRUE)
    ELSE Got("Ok", "", "", TRUE, TRUE)

\* Row::get_inner on a row: accepts: T::accepts(ty); conv: from_sql_nullable
\* converts the column's value.  self.ranges[idx] panics out of bounds.
GetInner(row, columns, idx, accepts, conv) ==
    IF idx = -1 THEN Got("Err", "Column", "", FALSE, FALSE)
    ELSE IF ~accepts THEN Got("Err", "FromSql", "WrongType", FALSE, FALSE)
    ELSE IF idx >= Len(row.ranges) THEN Got("Panic", "Bounds", "", TRUE, FALSE)
    ELSE IF ~conv THEN Got("Err", "FromSql", "Decode", TRUE, TRUE)
    ELSE Got("Ok", "", "", TRUE, TRUE)

\* Row::get panics on the error try_get returns
GetResult(api, r) ==
    IF api = "get" /\ r.k = "Err" THEN [r EXCEPT !.k = "Panic"] ELSE r

\* the caller calls get or try_get on the r-th Row it holds, with a usize
\* (by = "usize", i) or a str (by = "str", name)
RowGet(c, r, api, by, i, name) ==
    /\ pc[c] = "idle"
    /\ r \in DOMAIN rows[c]
    /\ \E accepts \in BOOLEAN, conv \in BOOLEAN :
       LET row == rows[c][r]
           columns == stmts[row.s].columns
           idx == IF by = "usize" THEN UsizeIdx(i, columns) ELSE StrIdx(name, columns)
           res == GetResult(api, GetInner(row, columns, idx, accepts, conv))
       IN  got' = [api |-> api, by |-> by, i |-> IF by = "usize" THEN i ELSE 0,
                   name |-> IF by = "str" THEN name ELSE <<>>,
                   columns |-> [j \in 1..Len(columns) |-> columns[j].name],
                   ncols |-> Len(columns),
                   nranges |-> Len(row.ranges),
                   nf |-> row.nf, idx |-> idx, k |-> res.k, e |-> res.e,
                   accepts |-> accepts, conv |-> conv,
                   null |-> idx # -1 /\ idx < Len(row.ranges)
                            /\ row.ranges[idx + 1] = "None",
                   cause |-> res.cause, read |-> res.read, dec |-> res.dec]
    /\ UNCHANGED <<script, nextId, client, calc, cached_typeinfo, clientAlive, senderClosed, buffer, sent, chan, stmts,
                   pc, loc, resp, stream, rows, hnd, ret, nops>>

\* Row::clean_body on the r-th Row the caller holds: the body is cleaned
\* and the ranges are cleared
RowCleanBody(c, r) ==
    /\ pc[c] = "idle"
    /\ r \in DOMAIN rows[c]
    /\ rows' = [rows EXCEPT ![c][r].ranges = <<>>]
    /\ UNCHANGED <<script, nextId, client, calc, cached_typeinfo, got, clientAlive, senderClosed, buffer, sent, chan,
                   stmts, pc, loc, resp, stream, hnd, ret, nops>>

(***************************************************************************)
(* Statement handles of the callers                                        *)
(***************************************************************************)
\* caller c clones a handle to statement s it holds and gives it to caller d
HandleClone(c, d, s) ==
    /\ pc[c] = "idle"
    /\ hnd[c][s] > 0
    /\ hnd[d][s] < MaxHandles
    /\ SetWorld(CloneStatement(World, s))
    /\ hnd' = [hnd EXCEPT ![d][s] = @ + 1]
    /\ UNCHANGED <<script, nextId, client, calc, cached_typeinfo, got, clientAlive, senderClosed, pc, loc, resp, stream, rows, ret, nops>>

\* the handles of s that caller c lends: a RowStream or a Row made from a
\* handle borrows it for as long as it lives
Lent(c, s) ==
    IF \/ (stream[c].s = s /\ stream[c].bor)
       \/ \E i \in DOMAIN rows[c] : rows[c][i].s = s /\ rows[c][i].bor
    THEN 1 ELSE 0

\* caller c drops a handle to statement s
HandleDrop(c, s) ==
    /\ pc[c] = "idle"
    /\ hnd[c][s] > Lent(c, s)
    /\ SetWorld(DropStatement(World, s))
    /\ hnd' = [hnd EXCEPT ![c][s] = @ - 1]
    /\ UNCHANGED <<script, nextId, client, calc, cached_typeinfo, got, clientAlive, senderClosed, pc, loc, resp, stream, rows, ret, nops>>

(***************************************************************************)
(* The connection task, the other end of both channels.                    *)
(***************************************************************************)
\* the buffer of the response channel: mpsc::channel(1)
ChanBuffer == 1

\* a bounded channel holds its buffer and one more message for each sender
ChanCap == ChanBuffer + 1

\* a batch of len frames delivered for request r
ConnPush(r, len) ==
    /\ chan[r].tx /\ chan[r].rx
    /\ Len(chan[r].q) < ChanCap
    /\ chan[r].pushed + len <= MaxMsgs
    /\ chan' = [chan EXCEPT ![r].q = Append(@, [i \in 1..len |-> chan[r].pushed + i]),
                            ![r].pushed = @ + len]
    /\ UNCHANGED <<script, nextId, client, calc, cached_typeinfo, got, clientAlive, senderClosed, buffer, sent, stmts, pc, loc, resp,
                   stream, rows, hnd, ret, nops>>

\* the connection drops the sender of request r's channel
ConnClose(r) ==
    /\ chan[r].tx
    /\ chan[r].rx
    /\ chan' = [chan EXCEPT ![r].tx = FALSE]
    /\ UNCHANGED <<script, nextId, client, calc, cached_typeinfo, got, clientAlive, senderClosed, buffer, sent, stmts, pc, loc, resp,
                   stream, rows, hnd, ret, nops>>

\* the connection task ends: the request channel closes and every response
\* sender it holds is dropped
ConnEnd ==
    /\ ~senderClosed
    /\ senderClosed' = TRUE
    /\ chan' = [r \in DOMAIN chan |-> [chan[r] EXCEPT !.tx = FALSE]]
    /\ UNCHANGED <<script, nextId, client, calc, cached_typeinfo, got, clientAlive, buffer, sent, stmts, pc, loc, resp, stream, rows,
                   hnd, ret, nops>>

\* Client::__private_api_close: close_channel on the sender
ClientClose ==
    /\ clientAlive
    /\ ~senderClosed
    /\ senderClosed' = TRUE
    /\ UNCHANGED <<script, nextId, client, calc, cached_typeinfo, got, clientAlive, buffer, sent, chan, stmts, pc, loc, resp, stream,
                   rows, hnd, ret, nops>>

\* a Client whose InnerClient the statements own too: the sender lives as
\* long as a statement made from the client does
ClientDropStatementsOwn ==
    /\ clientAlive
    /\ \A c \in Callers : pc[c] \in {"idle", "s_poll"}
    /\ clientAlive' = FALSE
    /\ senderClosed' = (senderClosed \/
                          ~\E s \in DOMAIN stmts : stmts[s].rc > 0 /\ stmts[s].cl = client)
    /\ UNCHANGED <<script, nextId, client, calc, cached_typeinfo, got, buffer, sent, chan,
                   stmts, pc, loc, resp, stream, rows, hnd, ret, nops>>

\* the Client is dropped: no operation borrows it any more
ClientDrop ==
    /\ clientAlive
    /\ \A c \in Callers : pc[c] \in {"idle", "s_poll"}
    /\ clientAlive' = FALSE
    /\ senderClosed' = TRUE
    /\ UNCHANGED <<script, nextId, client, calc, cached_typeinfo, got, buffer, sent, chan, stmts, pc, loc, resp, stream, rows,
                   hnd, ret, nops>>

\* Client::new after a reconnect: a fresh InnerClient, which no Weak of an
\* earlier statement points to
ClientNew ==
    /\ ~clientAlive
    /\ client < MaxClients
    /\ client' = client + 1
    /\ clientAlive' = TRUE
    /\ senderClosed' = FALSE
    /\ cached_typeinfo' = NoCache
    /\ UNCHANGED <<script, nextId, got, calc, buffer, sent, chan, stmts, pc, loc, resp, stream, rows,
                   hnd, ret, nops>>

TextOps == {"query", "execute"}

(***************************************************************************)
(* The specifications.  Each is a workload over the actions above.         *)
(***************************************************************************)
\* Caller "a" prepares statements and queries or executes them with any
\* parameter count, while the connection delivers replies in batches, drops
\* response senders, ends, or the client is closed.
Next ==
    \/ PrepareStart("a", "prepare", 0)
    \/ \E op \in TextOps, s \in DOMAIN stmts, np \in ParamCounts :
          BindStart("a", op, s, np)
    \/ PrepareSend("a")
    \/ PrepareNext("a")
    \/ BindSend("a")
    \/ BindWait("a")
    \/ ExecuteNext("a")
    \/ StreamPoll("a")
    \/ StreamDrop("a")
    \/ \E i \in 1..MaxMsgs : RowDrop("a", i)
    \/ \E r \in DOMAIN chan, len \in BatchSizes : ConnPush(r, len)
    \/ \E r \in DOMAIN chan : ConnClose(r)
    \/ ConnEnd
    \/ ClientClose

Spec == Init /\ [][Next]_vars

\* Caller "a" prepares statements, queries them by handle or by query string
\* and hands clones of its handles around; every holder drops what it holds
\* in any order, and the Client may be dropped before them.
NextDrop ==
    \/ PrepareStart("a", "prepare", 0)
    \/ \E np \in ParamCounts : PrepareStart("a", "query", np)
    \/ \E s \in DOMAIN stmts, np \in ParamCounts : BindStart("a", "query", s, np)
    \/ PrepareSend("a")
    \/ PrepareNext("a")
    \/ BindSend("a")
    \/ BindWait("a")
    \/ StreamPoll("a")
    \/ StreamDrop("a")
    \/ \E i \in 1..MaxMsgs : RowDrop("a", i)
    \/ \E d \in Callers, s \in DOMAIN stmts : HandleClone("a", d, s)
    \/ \E c \in Callers, s \in DOMAIN stmts : HandleDrop(c, s)
    \/ \E r \in DOMAIN chan : ConnPush(r, 2)
    \/ ClientDrop

SpecDrop == Init /\ [][NextDrop]_vars

\* Caller "a" prepares named statements and runs typed queries, which make
\* unnamed ones, and drops them, before or after the Client is dropped and
\* the next one connected.
NextTyped ==
    \/ PrepareStart("a", "prepare", 0)
    \/ \E np \in ParamCounts : TypedStart("a", np)
    \/ PrepareSend("a")
    \/ PrepareNext("a")
    \/ TypedSend("a")
    \/ TypedNext("a")
    \/ StreamPoll("a")
    \/ StreamDrop("a")
    \/ \E i \in 1..MaxMsgs : RowDrop("a", i)
    \/ \E s \in DOMAIN stmts : HandleDrop("a", s)
    \/ \E r \in DOMAIN chan, len \in BatchSizes : ConnPush(r, len)
    \/ ClientDrop
    \/ ClientNew

SpecTyped == Init /\ [][NextTyped]_vars

\* Both callers prepare concurrently, MaxOps + 1 prepares between them, some
\* failing, across the drop of the Client and the connection of the next one.
NextNames ==
    \/ \E c \in Callers :
          /\ nops["a"] + nops["b"] <= MaxOps
          /\ PrepareStart(c, "prepare", 0)
    \/ \E c \in Callers : PrepareSend(c)
    \/ \E c \in Callers : PrepareNext(c)
    \/ \E r \in DOMAIN chan : ConnPush(r, 2)
    \/ ClientDrop
    \/ ClientNew

SpecNames == Init /\ [][NextNames]_vars

\* Both callers run a typed query each on the one client at the same time;
\* "a" pulls its RowStream, "b" abandons its own at any point, while the
\* connection delivers the replies of either request.
NextShare ==
    \/ \E c \in Callers :
          /\ nops[c] = 0
          /\ \E np \in ParamCounts : TypedStart(c, np)
    \/ \E c \in Callers : TypedSend(c)
    \/ \E c \in Callers : TypedNext(c)
    \/ StreamPoll("a")
    \/ \E c \in Callers : StreamDrop(c)
    \/ \E r \in DOMAIN chan : ConnPush(r, 2)

SpecShare == Init /\ [][NextShare]_vars

\* Caller "a" runs query_opt_in and query_one_in on a statement it prepared
\* or on a query string; the connection delivers any replies, in batches of
\* any size, or drops the sender of a request.
NextOpt ==
    \/ PrepareStart("a", "prepare", 0)
    \/ \E op \in OptOps : PrepareStart("a", op, 0)
    \/ \E op \in OptOps, s \in DOMAIN stmts : BindStart("a", op, s, 0)
    \/ PrepareSend("a")
    \/ PrepareNext("a")
    \/ BindSend("a")
    \/ BindWait("a")
    \/ OptNext("a")
    \/ \E i \in 1..MaxMsgs : RowDrop("a", i)
    \/ \E r \in DOMAIN chan, len \in BatchSizes : ConnPush(r, len)
    \/ \E r \in DOMAIN chan : ConnClose(r)

SpecOpt == Init /\ [][NextOpt]_vars

\* Caller "a" prepares a statement and lends it to caller "b"; the backend
\* is set to answer with one sequence of replies; "a" runs query_opt_in or
\* query_one_in on the statement, and after it "b" runs the heap operation
\* of the same name; the connection delivers the replies in batches of any
\* size.
NextEquiv ==
    \/ nops["a"] = 0 /\ PrepareStart("a", "prepare", 0)
    \/ PrepareSend("a")
    \/ PrepareNext("a")
    \/ \E s \in DOMAIN stmts :
          hnd["b"][s] = 0 /\ script = NoScript /\ HandleClone("a", "b", s)
    \/ /\ script = NoScript
       /\ \E s \in DOMAIN stmts : hnd["b"][s] > 0
       /\ \E seq \in Scripts : BackendScript(seq)
    \/ \E op \in OptOps, s \in DOMAIN stmts :
          script # NoScript /\ BindStart("a", op, s, 0)
    \/ \E s \in DOMAIN stmts :
          /\ ret["a"].op \in OptOps /\ pc["a"] = "idle"
          /\ BindStart("b", HeapOf(ret["a"].op), s, 0)
    \/ \E c \in Callers : BindSend(c)
    \/ \E c \in Callers : BindWait(c)
    \/ OptNext("a")
    \/ HeapOptNext("b")
    \/ \E r \in DOMAIN chan, len \in BatchSizes : ConnPush(r, len)

SpecEquiv == Init /\ [][NextEquiv]_vars

\* Caller "a" prepares a statement and hands clones of its handle to "b";
\* both callers query and execute the statement at the same time, drop the
\* RowStreams they get and drop their handles in any order, while the
\* connection delivers the replies.
NextBind ==
    \/ nops["a"] = 0 /\ PrepareStart("a", "prepare", 0)
    \/ PrepareSend("a")
    \/ PrepareNext("a")
    \/ \E s \in DOMAIN stmts : HandleClone("a", "b", s)
    \/ \E c \in Callers, op \in TextOps, s \in DOMAIN stmts : BindStart(c, op, s, 0)
    \/ \E c \in Callers : BindSend(c)
    \/ \E c \in Callers : BindWait(c)
    \/ \E c \in Callers : ExecuteNext(c)
    \/ \E c \in Callers : StreamDrop(c)
    \/ \E c \in Callers, s \in DOMAIN stmts : HandleDrop(c, s)
    \/ \E r \in DOMAIN chan : ConnPush(r, 2)

SpecBind == Init /\ [][NextBind]_vars

\* Caller "a" queries and executes query strings with any parameter count
\* and drops the RowStreams and Rows it gets, while the connection delivers
\* replies in batches, drops response senders or ends.
NextText ==
    \/ \E op \in TextOps, np \in ParamCounts : PrepareStart("a", op, np)
    \/ PrepareSend("a")
    \/ PrepareNext("a")
    \/ BindSend("a")
    \/ BindWait("a")
    \/ ExecuteNext("a")
    \/ StreamPoll("a")
    \/ StreamDrop("a")
    \/ \E i \in 1..MaxMsgs : RowDrop("a", i)
    \/ \E r \in DOMAIN chan, len \in BatchSizes : ConnPush(r, len)
    \/ \E r \in DOMAIN chan : ConnClose(r)
    \/ ConnEnd

SpecText == Init /\ [][NextText]_vars

\* the place of the ReadyForQuery that ends the replies seq
RfqAt(seq) ==
    IF \E n \in DOMAIN seq : seq[n].k = "ReadyForQuery"
    THEN CHOOSE n \in DOMAIN seq :
            /\ seq[n].k = "ReadyForQuery"
            /\ \A m \in 1..(n - 1) : seq[m].k # "ReadyForQuery"
    ELSE Len(seq)

\* a connection that goes on delivering after the ReadyForQuery
DeliversAnything(r, len) == TRUE

\* the connection delivers the replies to a request up to its ReadyForQuery
\* and nothing after it
Delivers(r, len) == script = NoScript \/ chan[r].pushed + len <= RfqAt(script)

\* Caller "a" prepares a statement; the backend is set to answer with one
\* sequence of replies; "a" queries the statement and polls the RowStream,
\* also after its end, and drops the Rows and the RowStream; the connection
\* delivers the replies up to the ReadyForQuery and drops the sender.
NextEnd ==
    \/ nops["a"] = 0 /\ PrepareStart("a", "prepare", 0)
    \/ PrepareSend("a")
    \/ PrepareNext("a")
    \/ /\ script = NoScript
       /\ \E s \in DOMAIN stmts : hnd["a"][s] > 0
       /\ \E seq \in Scripts : BackendScript(seq)
    \/ \E s \in DOMAIN stmts : script # NoScript /\ BindStart("a", "query", s, 0)
    \/ BindSend("a")
    \/ BindWait("a")
    \/ StreamPoll("a")
    \/ StreamDrop("a")
    \/ \E i \in 1..MaxMsgs : RowDrop("a", i)
    \/ \E r \in DOMAIN chan, len \in BatchSizes : Delivers(r, len) /\ ConnPush(r, len)
    \/ \E r \in DOMAIN chan : ConnClose(r)

SpecEnd == Init /\ [][NextEnd]_vars

\* the replies a backend gives to the Bind request of an execute
ExecLetters ==
    {l \in Letters : l.k \in {"BindComplete", "DataRow", "CommandComplete",
                              "EmptyQueryResponse", "PortalSuspended",
                              "ReadyForQuery", "ErrorResponse", "NoData"}}
ExecScripts == [1..MaxMsgs -> ExecLetters]

\* Caller "a" prepares a statement; the backend is set to answer with one
\* sequence of replies; "a" executes the statement while the connection
\* delivers the replies in batches or drops the sender.
NextExec ==
    \/ nops["a"] = 0 /\ PrepareStart("a", "prepare", 0)
    \/ PrepareSend("a")
    \/ PrepareNext("a")
    \/ /\ script = NoScript
       /\ \E s \in DOMAIN stmts : hnd["a"][s] > 0
       /\ \E seq \in ExecScripts : BackendScript(seq)
    \/ \E s \in DOMAIN stmts : script # NoScript /\ BindStart("a", "execute", s, 0)
    \/ BindSend("a")
    \/ BindWait("a")
    \/ ExecuteNext("a")
    \/ \E r \in DOMAIN chan, len \in BatchSizes : ConnPush(r, len)
    \/ \E r \in DOMAIN chan : ConnClose(r)

SpecExec == Init /\ [][NextExec]_vars

\* Caller "a" prepares a statement and hands a clone to "b"; the backend is
\* set to answer with one sequence of replies; "a" queries the statement and
\* polls the RowStream, then "b" executes the statement on the same replies.
NextAffected ==
    \/ nops["a"] = 0 /\ PrepareStart("a", "prepare", 0)
    \/ PrepareSend("a")
    \/ PrepareNext("a")
    \/ \E s \in DOMAIN stmts : hnd["b"][s] = 0 /\ HandleClone("a", "b", s)
    \/ /\ script = NoScript
       /\ \E s \in DOMAIN stmts : hnd["b"][s] > 0
       /\ \E seq \in ExecScripts : BackendScript(seq)
    \/ \E s \in DOMAIN stmts : script # NoScript /\ BindStart("a", "query", s, 0)
    \/ \E s \in DOMAIN stmts :
          /\ stream["a"].last = "end"
          /\ BindStart("b", "execute", s, 0)
    \/ \E c \in {"a", "b"} : BindSend(c)
    \/ \E c \in {"a", "b"} : BindWait(c)
    \/ StreamPoll("a")
    \/ ExecuteNext("b")
    \/ \E r \in DOMAIN chan, len \in BatchSizes : Delivers(r, len) /\ ConnPush(r, len)

SpecAffected == Init /\ [][NextAffected]_vars

\* Caller "a" prepares a statement, queries and executes it and drops its
\* RowStream and its handle, while caller "b" runs a typed query: the Bind
\* request, the typed request and the Close request are submitted in any
\* order.
NextAtomic ==
    \/ nops["a"] = 0 /\ PrepareStart("a", "prepare", 0)
    \/ PrepareSend("a")
    \/ PrepareNext("a")
    \/ \E op \in TextOps, s \in DOMAIN stmts : BindStart("a", op, s, 0)
    \/ \E np \in ParamCounts : nops["b"] = 0 /\ TypedStart("b", np)
    \/ BindSend("a")
    \/ TypedSend("b")
    \/ BindWait("a")
    \/ ExecuteNext("a")
    \/ TypedNext("b")
    \/ \E c \in Callers : StreamDrop(c)
    \/ \E s \in DOMAIN stmts : HandleDrop("a", s)
    \/ \E r \in DOMAIN chan : ConnPush(r, 2)

SpecAtomic == Init /\ [][NextAtomic]_vars

\* The connection serves the request of caller c's execute: it delivers a
\* batch of replies or drops the sender of the response channel.
ConnServes(c) ==
    /\ loc[c].op = "execute" /\ resp[c].r \in DOMAIN chan
    /\ \/ \E len \in BatchSizes : ConnPush(resp[c].r, len)
       \/ ConnClose(resp[c].r)

\* Caller "a" prepares a statement and hands a clone of its handle to "b";
\* "a" executes the statement while "b" queries it; the connection delivers
\* any replies to any request, in batches, and may drop the sender of the
\* request of an execute; it may leave the query of "b" unanswered.
NextLive ==
    \/ nops["a"] = 0 /\ PrepareStart("a", "prepare", 0)
    \/ PrepareSend("a")
    \/ PrepareNext("a")
    \/ \E s \in DOMAIN stmts : hnd["b"][s] = 0 /\ HandleClone("a", "b", s)
    \/ \E s \in DOMAIN stmts : BindStart("a", "execute", s, 0)
    \/ \E s \in DOMAIN stmts : nops["b"] = 0 /\ BindStart("b", "query", s, 0)
    \/ \E c \in Callers : BindSend(c)
    \/ \E c \in Callers : BindWait(c)
    \/ ExecuteNext("a")
    \/ ConnServes("a")
    \/ \E r \in DOMAIN chan : ConnPush(r, 2)

\* The task of an execute is polled again whenever its send can go on or its
\* Responses has something to return, and the connection goes on serving the
\* request of an execute until it has dropped the sender; nothing is assumed
\* about the other requests.
FairLive ==
    /\ WF_vars(BindSend("a"))
    /\ WF_vars(BindWait("a"))
    /\ WF_vars(ExecuteNext("a"))
    /\ WF_vars(ConnServes("a"))

SpecLive == Init /\ [][NextLive]_vars /\ FairLive

\* Caller "a" prepares a statement; the backend is set to answer with one
\* sequence of replies; "a" runs query_in or Client::query on the statement
\* and keeps the rows it got, while the connection delivers the replies in
\* batches or drops the sender.
NextCollect ==
    \/ nops["a"] = 0 /\ PrepareStart("a", "prepare", 0)
    \/ PrepareSend("a")
    \/ PrepareNext("a")
    \/ /\ script = NoScript
       /\ \E s \in DOMAIN stmts : hnd["a"][s] > 0
       /\ \E seq \in Scripts : BackendScript(seq)
    \/ \E op \in CollectOps, s \in DOMAIN stmts :
          script # NoScript /\ BindStart("a", op, s, 0)
    \/ BindSend("a")
    \/ BindWait("a")
    \/ CollectNext("a")
    \/ \E r \in DOMAIN chan, len \in BatchSizes : Delivers(r, len) /\ ConnPush(r, len)
    \/ \E r \in DOMAIN chan : ConnClose(r)

SpecCollect == Init /\ [][NextCollect]_vars

\* Caller "a" runs a typed query, pulls its rows and reads their columns by
\* number and by name, before and after clean_body.
NextRow ==
    \/ /\ nops["a"] = 0
       /\ TypedStart("a", 0)
    \/ TypedSend("a")
    \/ TypedNext("a")
    \/ StreamPoll("a")
    \/ \E r \in 1..MaxMsgs, api \in {"get", "try_get"}, i \in AskIndices :
          RowGet("a", r, api, "usize", i, <<>>)
    \/ \E r \in 1..MaxMsgs, api \in {"get", "try_get"}, name \in AskNames :
          RowGet("a", r, api, "str", 0, name)
    \/ \E r \in 1..MaxMsgs : RowCleanBody("a", r)
    \/ \E r \in DOMAIN chan : ConnPush(r, 2)

SpecRow == Init /\ [][NextRow]_vars

\* Caller "a" prepares statements and the callers clone and drop their
\* handles, while the connection ends or the client closes or goes.
NextClose ==
    \/ PrepareStart("a", "prepare", 0)
    \/ PrepareSend("a")
    \/ PrepareNext("a")
    \/ \E d \in Callers, s \in DOMAIN stmts : HandleClone("a", d, s)
    \/ \E c \in Callers, s \in DOMAIN stmts : HandleDrop(c, s)
    \/ \E r \in DOMAIN chan, len \in BatchSizes : ConnPush(r, len)
    \/ ConnEnd
    \/ ClientClose
    \/ ClientDrop

SpecClose == Init /\ [][NextClose]_vars

\* The callers look types up, store them and clear the cache, in any order.
NextCache ==
    \/ \E c \in Callers, oid \in Oids : TypeLookup(c, oid)
    \/ \E c \in Callers, oid \in Oids, ty \in Types : SetType(c, oid, ty)
    \/ \E c \in Callers : ClearTypeCache(c)
    \/ \E c \in Callers, which \in TypeinfoFields : TypeinfoGet(c, which)
    \/ \E c \in Callers, which \in TypeinfoFields, st \in TypeinfoStatements :
          TypeinfoSet(c, which, st)

SpecCache == Init /\ [][NextCache]_vars

\* extract_row_affected is called on command tags.
NextTag == \E readable \in BOOLEAN, tag \in AskTags : ExtractRowAffected(readable, tag)

SpecTag == Init /\ [][NextTag]_vars

(***************************************************************************)
(* The claims.                                                             *)
(***************************************************************************)
\* the Bind messages among the requests enqueued
Binds == {m \in UNION {{sent[i][j] : j \in DOMAIN sent[i]} : i \in DOMAIN sent} :
             m.t = "Bind"}

\* C1: query or execute on a prepared Statement with a parameter list whose
\* length differs from the statement's fails with a Parameters error and
\* submits nothing: the result says so, no such operation is ever past its
\* encoding, and no Bind with a count other than its statement's is enqueued.
C1_ParameterCountChecked ==
    /\ \A c \in Callers :
          /\ (ret[c].op \in TextOps /\ ~ret[c].text /\ ret[c].np # ret[c].want)
                => (ret[c].k = "Err" /\ ret[c].e = "Parameters" /\ ret[c].sub = 0)
          /\ (loc[c].op \in TextOps /\ ~loc[c].text) => loc[c].np = loc[c].want
    /\ \A m \in Binds :
          \A s \in DOMAIN stmts : stmts[s].name = m.name => stmts[s].np = m.np

\* an execute with one parameter too many or too few has failed, after the
\* statement's prepare went through the connection
C1_Witness ==
    /\ ret["a"].op = "execute"
    /\ ~ret["a"].text
    /\ ret["a"].np # ret["a"].want
    /\ ret["a"].e = "Parameters"
    /\ Len(sent) = 1

\* the Close requests enqueued for a name
CloseCount(name) == Cardinality({i \in DOMAIN sent : sent[i] = CloseBuf(name)})

\* the Statement values of s alive: the callers' handles, the clones their
\* RowStreams, Rows and running operations hold
RECURSIVE RowsOf(_, _)
RowsOf(rs, s) ==
    IF rs = <<>> THEN 0
    ELSE (IF Head(rs).s = s THEN 1 ELSE 0) + RowsOf(Tail(rs), s)

RECURSIVE HeldBy(_, _)
HeldBy(cs, s) ==
    IF cs = {} THEN 0
    ELSE LET c == CHOOSE x \in cs : TRUE
         IN  hnd[c][s] + (IF stream[c].s = s THEN 1 ELSE 0) + RowsOf(rows[c], s)
             + (IF loc[c].s = s THEN 1 ELSE 0) + HeldBy(cs \ {c}, s)

Holders(s) == HeldBy(Callers, s)

Named == {s \in DOMAIN stmts : stmts[s].name # Unnamed}

\* C2 as stated: for every named Statement the Close is issued exactly once,
\* at the drop of the last handle: none while a handle (a caller's, a
\* RowStream's, a Row's) is alive, one once none is.
C2_CloseExactlyOnce ==
    \A s \in Named :
        /\ Holders(s) > 0 => CloseCount(stmts[s].name) = 0
        /\ Holders(s) = 0 => CloseCount(stmts[s].name) = 1

\* C2 amended: the Close of a named Statement is enqueued at most once and
\* never while a handle is alive; once the last handle is dropped it has been
\* enqueued exactly once unless the Client was gone or closed at that drop.
C2_CloseAtLastDrop ==
    \A s \in Named :
        /\ stmts[s].rc = Holders(s)
        /\ CloseCount(stmts[s].name) <= 1
        /\ CloseCount(stmts[s].name) = 1 => Holders(s) = 0
        /\ (Holders(s) = 0 /\ CloseCount(stmts[s].name) = 0)
              => (~clientAlive \/ senderClosed)

\* a statement made by a query given as a string, held only by the RowStream
\* and its Rows, has been closed by the drop of the last of them while the
\* Client lives
C2_Witness ==
    /\ clientAlive
    /\ ret["a"].op = "query" /\ ret["a"].text /\ ret["a"].k = "Ok"
    /\ stream["a"] = NoStream /\ rows["a"] = <<>>
    /\ \E s \in Named :
          /\ Holders(s) = 0
          /\ CloseCount(stmts[s].name) = 1
          /\ sent[Len(sent)] = CloseBuf(stmts[s].name)

\* the client a statement was made on is the one alive
Resolves(s) == clientAlive /\ stmts[s].cl = client

\* C3: the drop of the last handle of a Statement submits a Close for its
\* name only if the name is not empty and the Weak to the client upgrades,
\* and then nothing but that Close; the drop of an unnamed statement submits
\* nothing; a Close is enqueued by no other step.
C3_CloseOnlyNamedAndReachable ==
    [][/\ \A s \in DOMAIN stmts :
             (stmts[s].rc = 1 /\ stmts'[s].rc = 0) =>
                 /\ stmts[s].name = Unnamed => sent' = sent
                 /\ ~Resolves(s) => sent' = sent
                 /\ sent' # sent => sent' = Append(sent, CloseBuf(stmts[s].name))
       /\ \A i \in DOMAIN sent' \ DOMAIN sent :
             sent'[i][1].t = "Close" =>
                 \E s \in Named : /\ stmts[s].rc = 1 /\ stmts'[s].rc = 0
                                  /\ Resolves(s)
                                  /\ sent'[i] = CloseBuf(stmts[s].name)
      ]_vars

\* with a Client alive and open, an unnamed statement and a named one whose
\* Client is gone have both been dropped, and only the prepare and the typed
\* query were ever submitted
C3_Witness ==
    /\ clientAlive /\ ~senderClosed
    /\ Len(sent) = 2
    /\ \E s \in Named : stmts[s].rc = 0 /\ stmts[s].cl # client
    /\ \E s \in DOMAIN stmts \ Named : stmts[s].rc = 0

\* the names of the Parse requests enqueued, in order
RECURSIVE ParseNames(_)
ParseNames(reqs) ==
    IF reqs = <<>> THEN <<>>
    ELSE (IF Head(reqs)[1].t = "Parse" THEN <<Head(reqs)[1].name>> ELSE <<>>)
         \o ParseNames(Tail(reqs))

Distinct(seq) == \A i, j \in DOMAIN seq : i # j => seq[i] # seq[j]

\* the names the counter has given out when it holds n
NamesBelow(n) == {StmtName(k) : k \in 0..(n - 1)}

\* C4: statement names are unique.  In every step the counter does not
\* decrease; a prepare that is given a name gets one the counter never gave
\* out before, whatever became of the earlier prepares and of the client
\* they ran on; the calls running at once hold different names, and so do
\* the Parse requests enqueued and the statements made.
C4_NamesUnique ==
    [][/\ nextId' >= nextId
       /\ \A c \in Callers :
             (loc'[c].name # Unnamed /\ loc'[c].name # loc[c].name) =>
                 /\ loc'[c].name \notin NamesBelow(nextId)
                 /\ loc'[c].name \in NamesBelow(nextId')
       /\ \A c, d \in Callers :
             (c # d /\ loc'[c].name # Unnamed) => loc'[c].name # loc'[d].name
       /\ Distinct(ParseNames(sent'))
       /\ \A s, t \in DOMAIN stmts' :
             (s # t /\ stmts'[s].name # Unnamed) => stmts'[s].name # stmts'[t].name
      ]_vars

\* both callers are in a prepare at once on the second client, after a
\* prepare made a statement on the first one
C4_Witness ==
    /\ client = 2
    /\ pc["a"] = "prep_pd" /\ pc["b"] = "prep_pd"
    /\ \E s \in Named : stmts[s].cl = 1
    /\ nextId = 3

C6_NoneUntilEnd ==
    \A c \in Callers :
        (pc[c] = "idle" /\ stream[c] # NoStream /\ stream[c].last # "end")
            => rows_affected(c) = -1

\* the batches of a channel, one after the other
RECURSIVE Flatten(_)
Flatten(q) == IF q = <<>> THEN <<>> ELSE Head(q) \o Flatten(Tail(q))

\* the positions a to b, in order
Positions(a, b) == [i \in 1..(b - a + 1) |-> a + i - 1]

\* the live Responses: of the callers' operations and RowStreams
LiveResponses ==
    {[r |-> resp[c].r, cur |-> resp[c].cur, taken |-> resp[c].taken] :
        c \in {x \in Callers : resp[x].r # 0}}
    \cup {[r |-> stream[c].r, cur |-> stream[c].cur, taken |-> stream[c].taken] :
        c \in {x \in Callers : stream[x].r # 0}}

\* C7: what a Responses has not returned yet is, in its buffered batch and
\* then in the channel, exactly the messages pushed after those it returned,
\* in the order pushed; the message its next pull returns is the first of
\* them, whatever it decodes to.
C7_ResponsesInOrder ==
    \A R \in LiveResponses :
        /\ R.cur \o Flatten(chan[R.r].q) = Positions(R.taken + 1, chan[R.r].pushed)
        /\ \A l \in Letters :
              LET p == PollNext(R.cur, chan[R.r].q, chan[R.r].tx, l)
              IN  p.m # NoMsg => p.m.n = R.taken + 1

\* a RowStream has returned the first batch and part of the second while a
\* third waits in the channel
C7_Witness ==
    /\ stream["a"].r # 0
    /\ stream["a"].taken = 2
    /\ stream["a"].cur = <<3>>
    /\ chan[stream["a"].r].q = <<(<<4>>)>>

\* C8: an operation or a RowStream pull whose Responses decoded an
\* ErrorResponse ended with the Database error: not UnexpectedMessage, not
\* a success.
C8_ErrorResponseIsDbError ==
    \A c \in Callers :
        /\ ret[c].errResp => (ret[c].k = "Err" /\ ret[c].e = "Db")
        /\ stream[c].lastK = "ErrorResponse" => stream[c].last = "Db"

\* a RowStream met an ErrorResponse after it had yielded a Row, and
\* yielded the Database error
C8_Witness ==
    /\ stream["a"].lastK = "ErrorResponse"
    /\ stream["a"].yld # <<>>
    /\ stream["a"].last = "Db"

\* a Responses whose channel the connection closed, with nothing or with
\* something left to return
Drained(R) == R.r # 0 /\ ~chan[R.r].tx /\ R.cur = <<>> /\ chan[R.r].q = <<>>
Buffered(R) == R.r # 0 /\ ~chan[R.r].tx /\ (R.cur # <<>> \/ chan[R.r].q # <<>>)

\* C9: a pull on a Responses whose channel is closed and drained is ready
\* and fails with Closed: the operation returns Closed, the RowStream
\* yields Closed and no Row or end; while something is buffered the pull
\* returns the next buffered message and not Closed.
C9_ClosedAfterBuffered ==
    [][\A c \in Callers :
         /\ Drained(resp[c]) =>
               /\ \A l \in Letters : RespNext(c, l) = RecvClosed(<<>>, <<>>)
               /\ pc'[c] # pc[c] => (ret'[c].k = "Err" /\ ret'[c].e = "Closed")
         /\ (Drained(stream[c]) /\ stream'[c] # NoStream) =>
               /\ stream'[c] # stream[c] =>
                     (stream'[c].last = "Closed" /\ rows'[c] = rows[c])
               /\ (pc[c] = "s_poll" /\ pc'[c] = "idle") => stream'[c].last = "Closed"
         /\ (Buffered(resp[c]) /\ pc'[c] # pc[c]) => ret'[c].e # "Closed"
         /\ (Buffered(stream[c]) /\ stream'[c] # stream[c] /\ stream'[c] # NoStream) =>
               /\ stream'[c].taken = stream[c].taken + 1
               /\ stream'[c].last # "Closed"
      ]_vars

\* a RowStream yielded the Row buffered when the connection closed the
\* channel, and then Closed
C9_Witness ==
    /\ stream["a"].last = "Closed"
    /\ stream["a"].yld # <<>>
    /\ stream["a"].taken = chan[stream["a"].r].pushed

\* C10 as stated: every prepare, query and execute started when is_closed()
\* is true fails with Closed and enqueues no request.
C10_ClosedFailsIdentically ==
    \A c \in Callers :
        (ret[c].op # "" /\ ret[c].closed)
            => (ret[c].k = "Err" /\ ret[c].e = "Closed" /\ ret[c].sub = 0)

\* C10 amended: on a closed request channel send enqueues nothing; an
\* operation started when is_closed() is true finds it closed for good,
\* enqueues no request and fails: with Closed, or, when its request could
\* not be encoded, with the error of the encoder: Parameters for a query or
\* execute given the wrong number of parameters, Encode for a query string
\* or a Bind that does not serialize, ToSql for a parameter that does not
\* convert.
C10_ClosedFailsNothingEnqueued ==
    /\ senderClosed => Send(World, PrepareBuf(StmtName(nextId))) = World
    /\ \A c \in Callers :
          /\ (ret[c].op # "" /\ ret[c].closed) =>
                /\ ret[c].k = "Err" /\ ret[c].sub = 0
                /\ \/ ret[c].e = "Closed"
                   \/ /\ ret[c].e = "Parameters"
                      /\ ret[c].op \in TextOps /\ ret[c].np # ret[c].want
                   \/ /\ ret[c].e \in {"Encode", "ToSql"}
                      /\ ret[c].op = "prepare" \/ ret[c].np = ret[c].want
          /\ (loc[c].op # "" /\ loc[c].closed) =>
                (senderClosed /\ loc[c].sub = 0 /\ resp[c].r = 0)

\* an execute started on the closed client, with the right number of
\* parameters, has failed with Closed; only its statement's prepare was
\* ever enqueued
C10_Witness ==
    /\ ret["a"].op = "execute" /\ ret["a"].closed
    /\ ret["a"].np = ret["a"].want
    /\ ret["a"].e = "Closed"
    /\ Len(sent) = 1


\* the channels of the Responses caller c holds
ChannelsOf(c) == {resp[c].r, stream[c].r} \ {0}

\* C11: every request enqueued has a response channel of its own, no two
\* callers' Responses read the same channel, and what a live Responses has
\* returned and still buffers is exactly what the connection delivered for
\* its request; a step in which a caller drops its Responses or RowStream
\* leaves every other caller's Responses, RowStream, Rows and channel as
\* they were.
C11_RequestsIsolated ==
    /\ [](/\ Len(chan) = Len(sent)
          /\ \A c, d \in Callers : c # d => ChannelsOf(c) \cap ChannelsOf(d) = {}
          /\ \A R \in LiveResponses :
                /\ chan[R.r].rx
                /\ R.taken + Len(R.cur) + Len(Flatten(chan[R.r].q)) = chan[R.r].pushed)
    /\ [][\A c \in Callers :
            (ChannelsOf(c) # {} /\ ChannelsOf(c)' = {}) =>
                \A d \in Callers \ {c} :
                    /\ resp'[d] = resp[d] /\ stream'[d] = stream[d] /\ rows'[d] = rows[d]
                    /\ \A r \in ChannelsOf(d) : chan'[r] = chan[r]
        ]_vars

\* "b" has dropped its RowStream unread, replies to its request undelivered
\* or discarded, while the RowStream of "a" has yielded a Row and has more
\* replies waiting in its channel
C11_Witness ==
    /\ stream["b"] = NoStream /\ ret["b"].op = "typed" /\ ret["b"].k = "Ok"
    /\ stream["a"].r # 0
    /\ \E r \in DOMAIN chan : r # stream["a"].r /\ chan[r] = DeadChan
    /\ stream["a"].yld # <<>>
    /\ chan[stream["a"].r].q # <<>>


\* a buffer holding exactly the messages one call encodes: those of
\* prepare, of a query or execute, of a typed query or of a statement's drop
OneCall(b) ==
    \/ Len(b) = 3 /\ b = PrepareBuf(b[1].name)
    \/ Len(b) = 3 /\ b = BindBuf(b[1].name, b[1].np)
    \/ Len(b) = 5 /\ b = TypedBuf(b[2].np)
    \/ Len(b) = 2 /\ b = CloseBuf(b[1].name)

\* C12: between two with_buf calls the shared write buffer is empty, also
\* when the last closure failed and had left bytes in it; every buffer an
\* operation holds to submit and every request submitted holds exactly the
\* messages one call encoded, with both callers encoding in any order.
C12_WriteBufferStateless ==
    /\ buffer = <<>>
    /\ \A c \in Callers : loc[c].buf # <<>> => OneCall(loc[c].buf)
    /\ \A i \in DOMAIN sent : OneCall(sent[i])

\* the typed query of "a" failed in the Bind of its parameter, after its
\* Parse was written to the buffer, and the typed query of "b" is the only
\* request submitted
C12_Witness ==
    /\ ret["a"].op = "typed" /\ ret["a"].e = "Encode" /\ ret["a"].np = 1
    /\ nops["b"] = 1 /\ pc["b"] = "typed_wait"
    /\ Len(sent) = 1


\* the replies a prepare must get, by position
PrepareReplies == <<{"ParseComplete"}, {"ParameterDescription"},
                    {"RowDescription", "NoData"}>>

\* a finished prepare of caller c that decoded a message which is not the
\* one due at its position
Deviates(c) ==
    /\ ret[c].op = "prepare"
    /\ ret[c].lastK \notin {"none", "Malformed"}
    /\ ret[c].lastK \notin PrepareReplies[Len(ret[c].seen) + 1]

\* a prepare returned a Statement only after the three replies, in order
PreparedInOrder(c) ==
    (ret[c].op = "prepare" /\ ret[c].k = "Ok") =>
        /\ ret[c].seen = <<"ParseComplete", "ParameterDescription">>
        /\ ret[c].lastK \in PrepareReplies[3]
        /\ ret[c].s \in DOMAIN stmts

\* a prepare that failed made no Statement
NoStatement(c) ==
    (ret[c].op = "prepare" /\ ret[c].k = "Err") =>
        (ret[c].s = 0 /\ Len(stmts) < nops[c])

\* C13 as stated: a prepare returns a Statement only after ParseComplete,
\* ParameterDescription and RowDescription or NoData, in order, and any
\* other message at one of the three positions fails it with
\* UnexpectedMessage and no Statement.
C13_AnyOtherIsUnexpected ==
    \A c \in Callers :
        /\ PreparedInOrder(c)
        /\ NoStatement(c)
        /\ Deviates(c) => (ret[c].k = "Err" /\ ret[c].e = "UnexpectedMessage")

\* C13 amended: the same, but an ErrorResponse at one of the three
\* positions fails the prepare with the Database error.
C13_OtherFailsPrepare ==
    \A c \in Callers :
        /\ PreparedInOrder(c)
        /\ NoStatement(c)
        /\ Deviates(c) =>
              /\ ret[c].k = "Err"
              /\ ret[c].e = IF ret[c].lastK = "ErrorResponse" THEN "Db"
                            ELSE "UnexpectedMessage"
        /\ \A at \in 1..3 : (pc[c] \in {"prep_pc", "prep_pd", "prep_rd"}
                                /\ Len(loc[c].seen) = at - 1) =>
              \A i \in 1..(at - 1) : loc[c].seen[i] \in PrepareReplies[i]

\* a prepare got ParseComplete and ParameterDescription and then a DataRow,
\* and failed with UnexpectedMessage
C13_Witness ==
    /\ ret["a"].op = "prepare" /\ ret["a"].e = "UnexpectedMessage"
    /\ ret["a"].seen = <<"ParseComplete", "ParameterDescription">>
    /\ ret["a"].lastK = "DataRow"


\* a finished query or execute of caller c whose first reply was a message
\* other than BindComplete
FirstDeviates(c) ==
    /\ ret[c].op \in TextOps
    /\ ret[c].seen = <<>>
    /\ ret[c].lastK \notin {"none", "Malformed", "BindComplete"}

\* a query returned its RowStream at the BindComplete that came first, an
\* execute entered its loop and returned its count after it
AfterBindComplete(c) ==
    /\ (ret[c].op = "query" /\ ret[c].k = "Ok") =>
          (ret[c].seen = <<>> /\ ret[c].lastK = "BindComplete")
    /\ (ret[c].op = "execute" /\ ret[c].k = "Ok") => ret[c].seen = <<"BindComplete">>
    /\ pc[c] = "x_loop" => loc[c].seen = <<"BindComplete">>
    /\ stream[c] # NoStream =>
          (ret[c].op = "query" /\ ret[c].k = "Ok" /\ stream[c].taken >= 1)

\* a query or execute that failed yielded no RowStream, no Row and no count
NothingYielded(c) ==
    (ret[c].op \in TextOps /\ ret[c].k = "Err") =>
        (stream[c] = NoStream /\ rows[c] = <<>> /\ ret[c].v = 0)

\* C14 as stated: query and execute go on to the rows only after a first
\* reply of BindComplete, and any other first message fails them with
\* UnexpectedMessage, no Row and no count yielded.
C14_AnyOtherFirstIsUnexpected ==
    \A c \in Callers :
        /\ AfterBindComplete(c)
        /\ NothingYielded(c)
        /\ FirstDeviates(c) => (ret[c].k = "Err" /\ ret[c].e = "UnexpectedMessage")

\* C14 amended: the same, but an ErrorResponse as the first reply fails
\* them with the Database error.
C14_OtherFirstFails ==
    \A c \in Callers :
        /\ AfterBindComplete(c)
        /\ NothingYielded(c)
        /\ FirstDeviates(c) =>
              /\ ret[c].k = "Err"
              /\ ret[c].e = IF ret[c].lastK = "ErrorResponse" THEN "Db"
                            ELSE "UnexpectedMessage"

\* an execute got a CommandComplete as its first reply and failed with
\* UnexpectedMessage
C14_Witness ==
    /\ ret["a"].op = "execute" /\ ret["a"].e = "UnexpectedMessage"
    /\ ret["a"].seen = <<>>
    /\ ret["a"].lastK = "CommandComplete"


\* the replies query_typed_in passes over
Ignored == {"ParseComplete", "BindComplete", "ParameterDescription"}

\* the typed query of caller c returned a RowStream on a new unnamed
\* statement, without parameters, whose columns have the given names
TypedReturns(c, names) ==
    /\ ret'[c].k = "Ok"
    /\ Len(stmts') = Len(stmts) + 1
    /\ [stmts'[Len(stmts')] EXCEPT !.columns = <<>>] =
          [name |-> Unnamed, np |-> 0, columns |-> <<>>, cl |-> 0, rc |-> 1]
    /\ Len(stmts'[Len(stmts')].columns) = Len(names)
    /\ \A j \in DOMAIN names : stmts'[Len(stmts')].columns[j].name = names[j]
    /\ stream'[c].s = Len(stmts') /\ stream'[c].r = resp[c].r

\* the typed query of caller c failed with e: no statement, no RowStream
TypedFails(c, e) ==
    /\ ret'[c].k = "Err" /\ ret'[c].e = e
    /\ stmts' = stmts /\ stream'[c] = NoStream

\* what a turn of the typed query's loop on a reply decoding to l does;
\* db: the error an ErrorResponse gives
TypedReply(c, l, db) ==
    (TypedNextL(c, l) /\ RespNext(c, l).m # NoMsg) =>
        CASE l.k \in Ignored ->
                /\ pc'[c] = "typed_wait" /\ ret'[c] = ret[c]
                /\ stmts' = stmts /\ stream'[c] = NoStream
          [] l.k = "NoData" -> TypedReturns(c, <<>>)
          [] l.k = "RowDescription" -> TypedReturns(c, [j \in DOMAIN l.a |-> l.a[j].name])
                                       \/ TypedFails(c, "Type")
          [] l.k = "Malformed" -> TypedFails(c, "Parse")
          [] l.k = "ErrorResponse" -> TypedFails(c, db)
          [] OTHER -> TypedFails(c, "UnexpectedMessage")

\* a typed query submits one request: Parse, Bind, Describe, Execute and
\* Sync on the unnamed statement, in this order
TypedOneRequest ==
    /\ \A i \in DOMAIN sent :
          sent[i][1] = FParse(Unnamed) =>
              \E np \in ParamCounts :
                  sent[i] = <<FParse(Unnamed), FBind(Unnamed, np), FDescribe(Unnamed),
                              FExecute, FSync>>
    /\ \A c \in Callers :
          /\ loc[c].op = "typed" =>
                (loc[c].sub = IF pc[c] = "typed_wait" THEN 1 ELSE 0)
          /\ ret[c].op = "typed" =>
                (ret[c].sub <= 1 /\ (ret[c].k = "Ok" => ret[c].sub = 1))

\* C15 as stated: the typed path submits its five messages as one request,
\* passes over ParseComplete, BindComplete and ParameterDescription, returns
\* a RowStream on an unnamed statement without columns at NoData and with
\* the columns of the RowDescription, in its order, at a RowDescription; any
\* other reply before that is the UnexpectedMessage error.
C15_TypedAnyOtherIsUnexpected ==
    /\ []TypedOneRequest
    /\ [][\A c \in Callers, l \in Letters : TypedReply(c, l, "UnexpectedMessage")]_vars

\* C15 amended: the same, but an ErrorResponse before that is the Database
\* error.
C15_TypedPath ==
    /\ []TypedOneRequest
    /\ [][\A c \in Callers, l \in Letters : TypedReply(c, l, "Db")]_vars

\* a typed query passed over three replies and returned its RowStream at
\* the RowDescription, the statement holding the two columns in order
C15_Witness ==
    /\ ret["a"].op = "typed" /\ ret["a"].k = "Ok"
    /\ ret["a"].lastK = "RowDescription"
    /\ stream["a"].s # 0 /\ stream["a"].taken = 4
    /\ Len(stmts[stream["a"].s].columns) = 2
    /\ stmts[stream["a"].s].columns[1].name = <<"I", "d">>
    /\ stmts[stream["a"].s].columns[2].name = <<"i", "d">>


\* the result set a finished query_opt_in or query_one_in of caller c read:
\* it got past start, and its RowStream ended at ReadyForQuery
OptEnded(c) ==
    /\ ret[c].seen = <<"BindComplete">>
    /\ ret[c].lastK = "ReadyForQuery"

\* C16: query_opt_in returns Ok(None) for a result of no row, the row for a
\* result of one row and the RowCount error at the second row; query_one_in
\* returns the row for one row and the RowCount error for none and at the
\* second; the RowCount error has no other cause, and the Row the caller
\* gets is the one read.
C16_RowCount ==
    \A c \in Callers :
        ret[c].op \in OptOps =>
            LET n == Len(ret[c].data)
                rowCount == ret[c].k = "Err" /\ ret[c].e = "RowCount"
            IN  /\ (OptEnded(c) /\ n = 0) =>
                      IF ret[c].op = "query_one" THEN rowCount
                      ELSE ret[c].k = "Ok" /\ ret[c].row = 0
                /\ (OptEnded(c) /\ n = 1) =>
                      (ret[c].k = "Ok" /\ ret[c].row = ret[c].data[1])
                /\ n >= 2 => rowCount
                /\ rowCount =>
                      \/ n = 2 /\ ret[c].lastK = "DataRow"
                      \/ ret[c].op = "query_one" /\ OptEnded(c) /\ n = 0
                /\ rows[c] # <<>> =>
                      /\ ret[c].k = "Ok" /\ Len(rows[c]) = 1
                      /\ rows[c][1].n = ret[c].row

\* query_opt_in met a second row and failed with the RowCount error
C16_Witness ==
    /\ ret["a"].op = "query_opt" /\ ret["a"].e = "RowCount"
    /\ Len(ret["a"].data) = 2

ExactAt(columns, name) == {j \in 0..(Len(columns) - 1) : columns[j + 1] = name}

\* the positions of the columns whose name is the one asked up to ASCII case
FoldedAt(columns, name) ==
    {j \in 0..(Len(columns) - 1) :
        /\ Len(columns[j + 1]) = Len(name)
        /\ \A x \in 1..Len(name) : Lower(columns[j + 1][x]) = Lower(name[x])}

Least(S) == CHOOSE j \in S : \A o \in S : j <= o

\* C18: a get or try_get by name resolves to the first column, in
\* declaration order, whose name equals the requested string exactly; when
\* no column matches exactly, to the first column that matches ASCII
\* case-insensitively; and ends with the column-not-found error when neither
\* exists.  An exact match at a later position wins over a case-insensitive
\* match at an earlier one.
C18_NameResolution ==
    got.by = "str" =>
        LET exact == ExactAt(got.columns, got.name)
            folded == FoldedAt(got.columns, got.name)
        IN  /\ exact # {} => got.idx = Least(exact)
            /\ exact = {} /\ folded # {} => got.idx = Least(folded)
            /\ exact = {} /\ folded = {} =>
                  /\ got.idx = -1
                  /\ got.e = "Column"
                  /\ got.k = IF got.api = "get" THEN "Panic" ELSE "Err"
            /\ got.e = "Column" => exact = {} /\ folded = {}

\* a name whose exact match stands after a column that matches it up to
\* case was asked for, and the later column was found
C18_Witness ==
    /\ got.by = "str"
    /\ got.name = <<"i", "d">>
    /\ got.columns = <<(<<"I", "d">>), (<<"i", "d">>)>>
    /\ got.idx = 1
    /\ got.k = "Ok"

(***************************************************************************)
(* C19: get and try_get with a numeric index                               *)
(***************************************************************************)
\* C19: a get or try_get with a numeric index below the number of columns
\* of the row never fails or panics because of indexing, neither with the
\* column-not-found error nor out of the bounds of the ranges of the row;
\* with an index that is not below the number of columns it ends with the
\* column-not-found error.
C19_NumericIndexNeverFails ==
    got.by = "usize" =>
        /\ got.i < got.ncols => got.e \notin {"Column", "Bounds"}
        /\ got.i >= got.ncols => got.e = "Column"

(***************************************************************************)
(* C20: the ranges of a Row                                                *)
(***************************************************************************)
\* C20: every Row built from a DataRow with as many fields as its statement
\* has columns holds as many ranges as its statement has columns, after
\* Row::new and after every operation on the row, clean_body included.
C20_RangesMatchColumns ==
    \A c \in Callers : \A r \in DOMAIN rows[c] :
        rows[c][r].nf = Len(stmts[rows[c][r].s].columns) =>
            Len(rows[c][r].ranges) = Len(stmts[rows[c][r].s].columns)

(***************************************************************************)
(* C21: try_get returns what get panics on                                 *)
(***************************************************************************)
\* C21: try_get never panics: in every state of the row every failure to
\* extract a value (no such column name, an index out of bounds, a type the
\* column does not accept, a value that does not decode) comes back as an
\* Err, and get panics on exactly these failures.
C21_TryGetNeverPanics ==
    /\ got.api = "try_get" => got.k \in {"Ok", "Err"}
    /\ got.api = "get" => got.k \in {"Ok", "Panic"}

(***************************************************************************)
(* C22: the order of the checks of get_inner                               *)
(***************************************************************************)
\* C22: a get or try_get first resolves the column (else the Column
\* error), then asks whether the requested type accepts the type of the
\* column (else the wrong-type error) and only then fetches the range and
\* decodes: on a type mismatch the range of the column is not read and the
\* decoder is not called, whether the value is NULL or not and whatever
\* the ranges of the row are.
C22_TypeCheckedBeforeDecode ==
    got.api # "" =>
        /\ got.idx = -1 => got.e = "Column" /\ ~got.read /\ ~got.dec
        /\ got.idx # -1 /\ ~got.accepts =>
              /\ got.e = "FromSql" /\ got.cause = "WrongType"
              /\ ~got.read /\ ~got.dec
              /\ got.k = IF got.api = "get" THEN "Panic" ELSE "Err"
        /\ got.dec => got.idx # -1 /\ got.accepts /\ got.read
        /\ got.cause = "Decode" => got.accepts /\ ~got.conv

\* a type the column does not accept was asked for a NULL column whose
\* conversion would have failed too
C22_Witness ==
    /\ got.api = "try_get" /\ got.null /\ ~got.accepts /\ ~got.conv
    /\ got.k = "Err" /\ got.cause = "WrongType" /\ ~got.read

(***************************************************************************)
(* C23: extract_row_affected                                               *)
(***************************************************************************)
\* what stands after the last space of the tag (the whole tag without one)
TrailingToken(tag) ==
    LET spaces == {i \in 1..Len(tag) : tag[i] = " "}
        from == IF spaces = {} THEN 1
                ELSE (CHOOSE i \in spaces : \A j \in spaces : j <= i) + 1
    IN  SubSeq(tag, from, Len(tag))

\* the digits d are a decimal number that is at most u64::MAX
FitsU64(d) ==
    LET lead == {i \in 1..Len(d) : d[i] # "0"}
        n == IF lead = {} THEN 0
             ELSE Len(d) + 1 - (CHOOSE i \in lead : \A j \in lead : i <= j)
        sig == SubSeq(d, Len(d) - n + 1, Len(d))
    IN  \/ n < Len(U64MaxDigits)
        \/ /\ n = Len(U64MaxDigits)
           /\ ~\E i \in 1..n :
                 /\ SubSeq(sig, 1, i - 1) = SubSeq(U64MaxDigits, 1, i - 1)
                 /\ DigitValue(sig[i]) > DigitValue(U64MaxDigits[i])

RECURSIVE Pow10(_)
Pow10(n) == IF n = 0 THEN 1 ELSE 10 * Pow10(n - 1)

\* the number the digits d stand for: the sum of digit * 10^place
RECURSIVE PlaceSum(_, _)
PlaceSum(d, i) ==
    IF i > Len(d) THEN 0
    ELSE DigitValue(d[i]) * Pow10(Len(d) - i) + PlaceSum(d, i + 1)

\* C23: on a readable tag extract_row_affected never fails and returns the
\* value of the trailing space-delimited token of the tag when that token
\* parses as an unsigned 64-bit integer, and 0 otherwise: 3 for
\* "UPDATE 3", 5 for "INSERT 0 5", 0 for "SELECT", for the empty tag and
\* for a token above u64::MAX.
C23_TrailingNumberOrZero ==
    (calc.f = "extract_row_affected" /\ calc.flag) =>
        LET tok == TrailingToken(calc.in)
            d == IF tok # <<>> /\ tok[1] = "+" THEN Tail(tok) ELSE tok
            numeric == /\ d # <<>>
                       /\ \A i \in 1..Len(d) : IsDigit(d[i])
                       /\ FitsU64(d)
        IN  /\ calc.ok
            /\ calc.out = IF numeric THEN PlaceSum(d, 1) ELSE 0
            /\ calc.in = TagUpdate3 => calc.out = 3
            /\ calc.in = TagInsert05 => calc.out = 5
            /\ calc.in = TagSelect => calc.out = 0
            /\ calc.in = <<>> => calc.out = 0
            /\ calc.in \in {TagTooLarge, TagManyDigits} => calc.out = 0

\* the tag "INSERT 0 5" gave 5
C23_Witness ==
    /\ calc.f = "extract_row_affected" /\ calc.flag /\ calc.ok
    /\ calc.in = TagInsert05 /\ calc.out = 5

(***************************************************************************)
(* C24: execute of a SELECT                                                *)
(***************************************************************************)
\* the command tag of a SELECT: "SELECT", alone or followed by the number
\* of rows retrieved
IsSelectTag(tag) ==
    /\ Len(tag) >= Len(TagSelect)
    /\ SubSeq(tag, 1, Len(TagSelect)) = TagSelect
    /\ Len(tag) > Len(TagSelect) => tag[Len(TagSelect) + 1] = " "

\* C24: execute returns 0 for a statement that does not modify any rows: an
\* execute that ends well on a SELECT returns 0, whatever number of rows the
\* SELECT returned.
C24_ExecuteSelectIsZero ==
    \A c \in Callers :
        (ret[c].op = "execute" /\ ret[c].k = "Ok" /\ IsSelectTag(ret[c].tag)) =>
            ret[c].v = 0

(***************************************************************************)
(* C25: the Close of a dropped statement is best-effort                    *)
(***************************************************************************)
\* the requests that are the Close of a statement
CloseRequests == {r \in DOMAIN sent : sent[r][1].t = "Close"}

\* C25: the Close a dropped Statement submits is best-effort: when the
\* request channel is closed nothing is submitted and the failure is
\* ignored; whatever happens the drop changes no caller's operation or
\* result, and the reply to a Close is never awaited: its Responses is
\* dropped at once.
C25_CloseBestEffort ==
    /\ [](\A r \in CloseRequests : chan[r].rx = FALSE /\ chan[r].q = <<>>)
    /\ [][\A c \in Callers, s \in DOMAIN stmts :
            HandleDrop(c, s) =>
                /\ ret' = ret /\ pc' = pc /\ loc' = loc /\ resp' = resp
                /\ senderClosed =>
                      sent' = sent /\ chan' = chan /\ buffer' = buffer]_vars

\* the last handle of a named statement was dropped while the client was
\* there and the request channel closed: no Close of it was submitted
C25_Witness ==
    \E s \in DOMAIN stmts :
        /\ stmts[s].rc = 0 /\ stmts[s].name # Unnamed
        /\ stmts[s].cl = client /\ clientAlive /\ senderClosed
        /\ ~\E r \in DOMAIN sent : sent[r] = CloseBuf(stmts[s].name)

(***************************************************************************)
(* C26: a Statement does not keep the connection alive                     *)
(***************************************************************************)
\* the statements made from the client that still have a holder
HeldStatements == {s \in DOMAIN stmts : stmts[s].rc > 0 /\ stmts[s].cl = client}

\* C26: a Statement, and a Row or RowStream that holds one, never keeps
\* the connection alive: once the Client is dropped the request channel is
\* closed, whatever Statements are still held, and the drop of a handle
\* after that submits no Close.
C26_StatementsDoNotOwnClient ==
    /\ [](~clientAlive => senderClosed)
    /\ [][\A c \in Callers, s \in DOMAIN stmts :
            (HandleDrop(c, s) /\ ~clientAlive) => sent' = sent /\ chan' = chan]_vars

\* the Client was dropped while a named statement was held, the channel
\* is closed, and the last handle of another named statement was dropped
\* without a Close
C26_Witness ==
    /\ ~clientAlive /\ senderClosed
    /\ \E s \in HeldStatements : stmts[s].name # Unnamed
    /\ \E s \in DOMAIN stmts :
          /\ stmts[s].rc = 0 /\ stmts[s].name # Unnamed
          /\ ~\E r \in DOMAIN sent : sent[r] = CloseBuf(stmts[s].name)

(***************************************************************************)
(* C28: the type cache                                                     *)
(***************************************************************************)
\* the OIDs type_ resolves
Resolvable(cache) == {o \in Oids : cache.types[o] # "None"}

\* a step of clear_type_cache by some caller
ClearStep == \E c \in Callers : ClearTypeCache(c)

\* C28: the type cache grows monotonically: an OID stored by set_type
\* stays resolvable, type_ returning a type for it, through every lookup
\* and store of every caller until clear_type_cache is called;
\* clear_type_cache removes every OID and leaves the three typeinfo
\* statements as they are.
C28_TypeCacheMonotone ==
    /\ [](calc.f = "type_" =>
            /\ calc.out = cached_typeinfo.types[calc.in]
            /\ calc.in \in Resolvable(cached_typeinfo) => calc.out \in Types)
    /\ [](calc.f = "set_type" => calc.in \in Resolvable(cached_typeinfo))
    /\ [][~ClearStep =>
            Resolvable(cached_typeinfo) \subseteq Resolvable(cached_typeinfo')]_vars
    /\ [][ClearStep =>
            /\ Resolvable(cached_typeinfo') = {}
            /\ \A which \in TypeinfoFields :
                  cached_typeinfo'[which] = cached_typeinfo[which]]_vars

\* with both OIDs stored and a typeinfo statement set, a lookup of the OID
\* stored first returned its type
C28_Witness ==
    /\ calc.f = "type_" /\ calc.in = 16 /\ calc.out = "bool"
    /\ Resolvable(cached_typeinfo) = Oids
    /\ cached_typeinfo.typeinfo # 0

(***************************************************************************)
(* C29: the errors of encoding and of decoding                             *)
(***************************************************************************)
\* C29: an outbound message (Parse, Bind, Describe, Execute) that cannot
\* be constructed is reported as the Encode error, on the prepared path
\* and on the typed path alike, and a malformed inbound frame as the Parse
\* error; the operation fails alone: it submits nothing for the request it
\* could not encode and leaves the write buffer empty for the next call.
C29_EncodeAndParseErrors ==
    /\ buffer = <<>>
    /\ \A c \in Callers :
          /\ ret[c].enc \in {"Parse", "Bind"} =>
                /\ ret[c].k = "Err" /\ ret[c].e = "Encode"
                /\ ret[c].text \/ ret[c].sub = 0
          /\ ret[c].lastK = "Malformed" => ret[c].k = "Err" /\ ret[c].e = "Parse"

(***************************************************************************)
(* C30: the columns of a Statement                                         *)
(***************************************************************************)
\* what the claim stores for a table OID or a column ordinal n
StoredAs(n) == IF n = 0 THEN [some |-> FALSE, v |-> 0] ELSE [some |-> TRUE, v |-> n]

\* the statement s, named by prepare or unnamed by the typed path, was
\* built from a RowDescription
HasColumns(s) == stmts[s].columns # <<>>

\* C30: the columns of a Statement built from a RowDescription, by prepare
\* and by the typed path, are its fields in the declared order, one column
\* for each field; the name is the field's, a table OID of zero and a
\* column ordinal of zero are stored as None and every other value is
\* stored unchanged.
C30_ColumnsAreFields ==
    \A s \in DOMAIN stmts :
        HasColumns(s) =>
            /\ Len(stmts[s].columns) = Len(Fields)
            /\ \A j \in 1..Len(Fields) :
                  /\ stmts[s].columns[j].name = Fields[j].name
                  /\ stmts[s].columns[j].table_oid = StoredAs(Fields[j].table_oid)
                  /\ stmts[s].columns[j].column_id = StoredAs(Fields[j].column_id)

\* a prepared statement and the unnamed statement of a typed query both
\* hold the two columns: the first without a table and with the ordinal 3,
\* the second with the table and without an ordinal
C30_Witness ==
    \E s, t \in DOMAIN stmts :
        /\ stmts[s].name # Unnamed /\ stmts[t].name = Unnamed
        /\ \A x \in {s, t} :
              /\ Len(stmts[x].columns) = 2
              /\ ~stmts[x].columns[1].table_oid.some
              /\ stmts[x].columns[1].column_id = [some |-> TRUE, v |-> 3]
              /\ stmts[x].columns[2].table_oid = [some |-> TRUE, v |-> TableOid]
              /\ ~stmts[x].columns[2].column_id.some

(***************************************************************************)
(* C27: the arena operations and the heap operations                       *)
(***************************************************************************)
\* caller c ran one of ops to its end on a request it submitted
RanTo(c, ops) == pc[c] = "idle" /\ ret[c].op \in ops /\ ret[c].sub = 1

\* the rows two callers were returned are equal column by column
SameRows(c, d) ==
    /\ Len(rows[c]) = Len(rows[d])
    /\ \A i \in DOMAIN rows[c] :
          /\ rows[c][i].n = rows[d][i].n
          /\ stmts[rows[c][i].s].columns = stmts[rows[d][i].s].columns
          /\ rows[c][i].ranges = rows[d][i].ranges

BindsOf(n) ==
    {i \in DOMAIN sent : \E j \in DOMAIN sent[i] :
                            sent[i][j].t = "Bind" /\ sent[i][j].name = n}

\* the requests that hold a Close naming n
ClosesOf(n) ==
    {i \in DOMAIN sent : \E j \in DOMAIN sent[i] :
                            sent[i][j].t = "Close" /\ sent[i][j].name = n}

\* C31: for every named statement, every Bind request that names it is
\* enqueued on the connection channel before the Close for that name,
\* whatever the interleaving of the executions, clones and handle drops of
\* the callers: no Bind naming it follows its Close.
C31_BindsBeforeClose ==
    \A s \in DOMAIN stmts :
        stmts[s].name # Unnamed =>
            \A i \in ClosesOf(stmts[s].name), j \in BindsOf(stmts[s].name) : j < i

\* both callers ran an operation on the statement at the same time, its
\* two Binds were enqueued, and its Close after them
C31_Witness ==
    \E s \in DOMAIN stmts :
        /\ stmts[s].name # Unnamed
        /\ Cardinality(BindsOf(stmts[s].name)) >= 2
        /\ ClosesOf(stmts[s].name) # {}
        /\ ret["a"].sub = 1 /\ ret["b"].sub = 1
        /\ ret["a"].op \in TextOps /\ ret["b"].op \in TextOps

(***************************************************************************)
(* C32: query and execute given a query string                             *)
(***************************************************************************)
\* the requests that hold a Parse naming n
ParsesOf(n) ==
    {i \in DOMAIN sent : \E j \in DOMAIN sent[i] :
                            sent[i][j].t = "Parse" /\ sent[i][j].name = n}

\* the names the operations on query strings allocated
TextNames == {sent[i][1].name : i \in {j \in DOMAIN sent : sent[j][1].t = "Parse"}}

\* the requests for a name are a Parse+Describe+Sync, then at most one
\* Bind+Execute+Sync, then at most one Close+Sync, in this order
TextRequestsInOrder(n) ==
    /\ Cardinality(ParsesOf(n)) = 1
    /\ Cardinality(BindsOf(n)) <= 1 /\ Cardinality(ClosesOf(n)) <= 1
    /\ \A i \in ParsesOf(n) : sent[i] = PrepareBuf(n)
    /\ \A i \in BindsOf(n) :
          /\ \E np \in ParamCounts : sent[i] = BindBuf(n, np)
          /\ \A p \in ParsesOf(n) : p < i
    /\ \A i \in ClosesOf(n) :
          /\ sent[i] = CloseBuf(n)
          /\ \A p \in ParsesOf(n) \cup BindsOf(n) : p < i

\* caller c is in no operation and holds no RowStream and no Row of s
Released(c, s) ==
    /\ pc[c] = "idle"
    /\ stream[c].s # s
    /\ \A i \in DOMAIN rows[c] : rows[c][i].s # s

\* C32: query and execute given a query string submit a Parse+Describe+Sync
\* request with a fresh name, then Bind+Execute+Sync for that name, then
\* Close+Sync for it, in this order; once its prepare succeeded the
\* statement is closed on every path while the client can send: when
\* execute has returned, Ok or Err, the parameter count error included, and
\* for query when the RowStream and every Row it yielded have been dropped.
C32_TextStatementClosed ==
    /\ \A n \in TextNames : TextRequestsInOrder(n)
    /\ \A s \in DOMAIN stmts :
          /\ stmts[s].name \in TextNames
          /\ (Released("a", s) /\ ~senderClosed) => ClosesOf(stmts[s].name) # {}

\* an execute of a query string returned Ok after its three requests, and
\* the next one failed on its parameter count: two requests, no Bind
C32_Witness ==
    /\ Len(stmts) = 2
    /\ ret["a"].op = "execute" /\ ret["a"].text /\ ret["a"].e = "Parameters"
    /\ sent = <<PrepareBuf(stmts[1].name), BindBuf(stmts[1].name, stmts[1].np),
                CloseBuf(stmts[1].name),
                PrepareBuf(stmts[2].name), CloseBuf(stmts[2].name)>>

(***************************************************************************)
(* C33: no Close for a name whose prepare failed                           *)
(***************************************************************************)
\* the names of the statements prepare returned
ReturnedNames == {stmts[s].name : s \in DOMAIN stmts}

\* C33: a Close is submitted only for a name whose prepare returned a
\* Statement: when prepare fails after its Parse request was submitted, on
\* an ErrorResponse, an unexpected message, a closed channel or a type that
\* does not resolve, no Close for the name it allocated is ever submitted.
C33_CloseOnlyForReturned ==
    \A n \in TextNames : ClosesOf(n) # {} => n \in ReturnedNames

\* one statement was prepared, used and closed; the prepare of the next
\* one failed on a type after its three replies, and its name, the last
\* one parsed, has no Close
C33_Witness ==
    /\ Len(stmts) = 1 /\ ClosesOf(stmts[1].name) # {}
    /\ ret["a"].k = "Err" /\ ret["a"].e = "Type" /\ ret["a"].sub = 1
    /\ ret["a"].seen = <<"ParseComplete", "ParameterDescription">>
    /\ Len(sent) = 4 /\ sent[4][1].t = "Parse"
    /\ sent[4][1].name \notin ReturnedNames
    /\ ClosesOf(sent[4][1].name) = {}

(***************************************************************************)
(* C34: a RowStream after its end                                          *)
(***************************************************************************)
\* the RowStream of caller c has read the ReadyForQuery of its request
Ended(c) ==
    /\ stream[c] # NoStream /\ script # NoScript
    /\ \E n \in 1..stream[c].taken : script[n].k = "ReadyForQuery"

\* C34: a RowStream is finite and not restartable: once it has read the
\* ReadyForQuery, no step gives the caller another Row and no step submits
\* a Bind or an Execute again, only the Close of the statement; a poll of
\* it when the connection has closed the response channel yields the
\* Closed error.
C34_EndedStreamStaysEnded ==
    [][\A c \in Callers :
          Ended(c) =>
              /\ Len(rows'[c]) <= Len(rows[c])
              /\ \A i \in DOMAIN sent' : i > Len(sent) => sent'[i][1].t = "Close"
              /\ (StreamPoll(c) /\ ~chan[stream[c].r].tx) =>
                    stream'[c].last = "Closed"]_vars

\* the RowStream yielded a Row, ended at the ReadyForQuery, and the poll
\* after that found the channel closed
C34_Witness ==
    /\ Ended("a")
    /\ Len(stream["a"].yld) >= 1
    /\ stream["a"].last = "Closed"

(***************************************************************************)
(* C35: what execute returns                                               *)
(***************************************************************************)
\* the replies execute passes over
ExecPasses == {"DataRow", "CommandComplete", "EmptyQueryResponse"}

\* the place of the first reply after BindComplete that execute does not
\* pass over; 0 when there is none
StopAt(seq) ==
    IF \A n \in 2..Len(seq) : seq[n].k \in ExecPasses THEN 0
    ELSE CHOOSE p \in 2..Len(seq) :
            /\ seq[p].k \notin ExecPasses
            /\ \A n \in 2..(p - 1) : seq[n].k \in ExecPasses

\* the count a command tag of the replies carries
TagCount(tag) == CASE tag = TagUpdate3 -> 3
                   [] tag = TagSelect1 -> 1
                   [] OTHER -> 0

\* the count of the last CommandComplete before place p: 0 when there is
\* none or when an EmptyQueryResponse came after it
CountBefore(seq, p) ==
    LET ccs == {n \in 2..(p - 1) : seq[n].k = "CommandComplete"}
    IN  IF ccs = {} THEN 0
        ELSE LET n == CHOOSE x \in ccs : \A y \in ccs : y <= x
             IN  IF \E m \in (n + 1)..(p - 1) : seq[m].k = "EmptyQueryResponse"
                 THEN 0
                 ELSE TagCount(seq[n].a)

\* caller c ran an execute to its end on replies that begin with
\* BindComplete, and the channel was not closed under it
Executed(c) ==
    /\ pc[c] = "idle" /\ ret[c].op = "execute" /\ ret[c].sub = 1
    /\ script # NoScript /\ script[1].k = "BindComplete"
    /\ ret[c].e # "Closed"

\* what execute returns on the replies; db: the error of an ErrorResponse
ExecuteReturns(c, db) ==
    Executed(c) =>
        /\ StopAt(script) # 0
        /\ ret[c].lastK = script[StopAt(script)].k
        /\ IF script[StopAt(script)].k = "ReadyForQuery"
           THEN ret[c].k = "Ok" /\ ret[c].v = CountBefore(script, StopAt(script))
           ELSE /\ ret[c].k = "Err"
                /\ ret[c].e = IF script[StopAt(script)].k = "ErrorResponse" THEN db
                              ELSE "UnexpectedMessage"

\* C35 as stated: execute returns Ok only after it observed ReadyForQuery,
\* with the count of the last CommandComplete received before it, 0 when
\* none was received or when an EmptyQueryResponse came after it; DataRows
\* are skipped; PortalSuspended or any other message makes it fail with
\* UnexpectedMessage.
C35_AnyOtherIsUnexpected == \A c \in Callers : ExecuteReturns(c, "UnexpectedMessage")

\* C35 amended: the same, but an ErrorResponse makes it fail with the
\* Database error.
C35_ExecuteCount == \A c \in Callers : ExecuteReturns(c, "Db")

\* execute returned the count of the second of two CommandCompletes
C35_Witness ==
    /\ Executed("a") /\ ret["a"].k = "Ok" /\ ret["a"].v = 1
    /\ script[2] = [k |-> "CommandComplete", a |-> TagUpdate3]
    /\ script[3] = [k |-> "CommandComplete", a |-> TagSelect1]
    /\ script[4].k = "ReadyForQuery"

(***************************************************************************)
(* C36: rows_affected of an exhausted RowStream                            *)
(***************************************************************************)
\* the places of the CommandCompletes among the first n replies
SeenCompletes(seq, n) == {p \in 2..n : seq[p].k = "CommandComplete"}

\* the count of the last CommandComplete among the first n replies; -1 (None)
\* when there is none
LastCount(seq, n) ==
    LET ccs == SeenCompletes(seq, n)
    IN  IF ccs = {} THEN -1
        ELSE TagCount(seq[CHOOSE x \in ccs : \A y \in ccs : y <= x].a)

\* the RowStream of c returned None: it read the ReadyForQuery
Exhausted(c) ==
    /\ script # NoScript /\ script[1].k = "BindComplete"
    /\ stream[c] # NoStream /\ stream[c].last = "end"

\* C36: once a RowStream is exhausted, rows_affected() is the count of the
\* last CommandComplete the stream read, and None when it read none, also
\* after an EmptyQueryResponse; an execute that returns Ok on the same
\* replies returns 0 when they hold no CommandComplete.
C36_RowsAffectedAfterEnd ==
    Exhausted("a") =>
        /\ rows_affected("a") = LastCount(script, stream["a"].taken)
        /\ (Executed("b") /\ ret["b"].k = "Ok" /\ rows_affected("a") = -1)
               => ret["b"].v = 0

\* the stream read an EmptyQueryResponse and no CommandComplete and ended
\* with None; execute returned Ok(0) on the same replies
C36_Witness ==
    /\ Exhausted("a")
    /\ \E p \in 2..stream["a"].taken : script[p].k = "EmptyQueryResponse"
    /\ rows_affected("a") = -1
    /\ Executed("b") /\ ret["b"].k = "Ok" /\ ret["b"].v = 0

(***************************************************************************)
(* C37: one execution is one request                                       *)
(***************************************************************************)
\* the messages in the order they were enqueued
Wire == Flatten(sent)

\* the message at place i of the wire is of kind t
WireIs(i, t) == i \in DOMAIN Wire /\ Wire[i].t = t

\* C37: every request that holds a Bind is the whole execution, Bind,
\* Execute, Sync on a prepared statement and Parse, Bind, Describe, Execute,
\* Sync on the unnamed statement of the typed path; so in the order of
\* enqueueing no message of another caller stands between the Bind and the
\* Execute on the unnamed portal, nor between the Parse, the Bind and the
\* Execute of a typed query.
C37_OneRequestPerExecution ==
    /\ \A i \in DOMAIN sent :
          (\E j \in DOMAIN sent[i] : sent[i][j].t \in {"Bind", "Execute"}) =>
              \E np \in ParamCounts :
                  \/ sent[i] = TypedBuf(np)
                  \/ \E s \in DOMAIN stmts : sent[i] = BindBuf(stmts[s].name, np)
    /\ \A i \in DOMAIN Wire :
          /\ Wire[i].t = "Bind" /\ Wire[i].name # Unnamed =>
                WireIs(i + 1, "Execute")
          /\ Wire[i].t = "Bind" /\ Wire[i].name = Unnamed =>
                /\ WireIs(i - 1, "Parse") /\ Wire[i - 1].name = Unnamed
                /\ WireIs(i + 1, "Describe") /\ WireIs(i + 2, "Execute")
          /\ Wire[i].t = "Execute" =>
                WireIs(i - 1, "Bind") \/ WireIs(i - 2, "Bind")

\* the executions of "a" and "b" are in flight at the same time, both wait
\* for their first reply; the typed request of "b" was enqueued before the
\* Bind request of "a"
C37_Witness ==
    /\ pc["a"] = "bind_wait" /\ pc["b"] = "typed_wait"
    /\ \E i, j \in DOMAIN sent :
          /\ i < j
          /\ sent[i] \in {TypedBuf(np) : np \in ParamCounts}
          /\ sent[j][1].t = "Bind"

(***************************************************************************)
(* C38: execute terminates                                                 *)
(***************************************************************************)
\* caller c is inside execute
Executing(c) == loc[c].op = "execute" /\ pc[c] # "idle"

\* C38: when the connection goes on delivering the replies of an execute's
\* request until it delivers ReadyForQuery or drops the sender, the execute
\* returns, Ok or Err: no execute waits forever, whatever the other caller
\* does and whether or not its requests are served.
C38_ExecuteTerminates ==
    Executing("a") ~> (pc["a"] = "idle" /\ ret["a"].op = "execute")

\* the execute of "a" returned Ok while the request of "b" was in flight,
\* submitted before it and not answered at all
C38_Witness ==
    /\ pc["a"] = "idle" /\ ret["a"].op = "execute" /\ ret["a"].k = "Ok"
    /\ pc["b"] = "bind_wait"
    /\ resp["b"].r = 2 /\ chan[2].pushed = 0 /\ chan[2].tx
    /\ Len(sent) = 3

(***************************************************************************)
(* C39: what query returns                                                 *)
(***************************************************************************)
\* the replies a RowStream passes over or yields as a Row
StreamPasses == {"DataRow", "CommandComplete", "EmptyQueryResponse",
                 "PortalSuspended"}

\* the place of the first reply after BindComplete that ends the stream or
\* makes it fail; 0 when there is none
CollectStop(seq) ==
    IF \A n \in 2..Len(seq) : seq[n].k \in StreamPasses THEN 0
    ELSE CHOOSE p \in 2..Len(seq) :
            /\ seq[p].k \notin StreamPasses
            /\ \A n \in 2..(p - 1) : seq[n].k \in StreamPasses

\* the places of the DataRows before place p, in the order of arrival
DataBefore(seq, p) ==
    SelectSeq(Positions(2, p - 1), LAMBDA n : seq[n].k = "DataRow")

\* the places, in the replies, of the DataRows the rows of a vector hold
RowNumbers(vec) == [i \in DOMAIN vec |-> vec[i].n]

\* caller c is back from query_in or Client::query, whose request was sent
Collected(c) ==
    /\ pc[c] = "idle" /\ ret[c].op \in CollectOps /\ ret[c].sub = 1
    /\ script # NoScript

\* C39: query returns Ok exactly when the stream ended with ReadyForQuery,
\* with one row for every DataRow received, in arrival order; otherwise it
\* returns the first error (of an ErrorResponse, a frame that does not parse,
\* an unexpected message or the closed channel) and none of the rows
\* received before it.
C39_QueryReturnsAllOrError ==
    Collected("a") =>
        IF script[1].k # "BindComplete" \/ ret["a"].e = "Closed"
        THEN ret["a"].k = "Err" /\ rows["a"] = <<>>
        ELSE /\ CollectStop(script) # 0
             /\ ret["a"].lastK = script[CollectStop(script)].k
             /\ IF script[CollectStop(script)].k = "ReadyForQuery"
                THEN /\ ret["a"].k = "Ok"
                     /\ RowNumbers(rows["a"]) = DataBefore(script, CollectStop(script))
                ELSE /\ ret["a"].k = "Err"
                     /\ rows["a"] = <<>>
                     /\ ret["a"].e =
                           CASE script[CollectStop(script)].k = "ErrorResponse" -> "Db"
                             [] script[CollectStop(script)].k = "Malformed" -> "Parse"
                             [] OTHER -> "UnexpectedMessage"

\* query_in read two DataRows and then an ErrorResponse: it returned the Db
\* error and the caller holds no row
C39_Witness ==
    /\ Collected("a") /\ ret["a"].op = "query_in"
    /\ ret["a"].k = "Err" /\ ret["a"].e = "Db"
    /\ ret["a"].data = <<2, 3>>
    /\ rows["a"] = <<>>

=============================================================================
